---- MODULE Spec2Model ----
(***************************************************************************)
(* AutoFileSort: the classification and safe-move engine                   *)
(* (autofile/sorter.py), its live-event adapter and watcher start          *)
(* (autofile/tray.py), over a small file system.                           *)
(*                                                                         *)
(* A file name is a sequence of one-character strings, so that             *)
(* os.path.splitext, str.lower and the "_(n)" suffix of check_name are     *)
(* computed on the characters.  A path is <<directory, name>>.             *)
(***************************************************************************)
EXTENDS Integers, Sequences, FiniteSets, TLC

(***************************************************************************)
(* Bounds of the model.                                                    *)
(***************************************************************************)
\* events the file-system notifier emits in one run
MaxEvents == 1
\* events the notifier emits for one write of one file
MaxBurst == 2
\* disturbances by the environment in one run (arrival, deletion, growth,
\* foreign write, I/O fault)
MaxEnv == 1
\* the wait_time and check_interval arguments of direct calls of
\* is_file_fully_downloaded range over 1..MaxWait and 1..MaxInterval
MaxWait == 3
MaxInterval == 2
\* a file's size is in 1..MaxSize
MaxSize == 2
\* clicks on the items of the tray menu in one run
MaxClicks == 3
\* Observer() objects constructed in one run
MaxObservers == 2
\* a raw extension string has at most MaxRawLen characters, a list of them
\* at most MaxItems elements
MaxRawLen == 2
MaxItems == 2

(***************************************************************************)
(* Program constants.                                                      *)
(***************************************************************************)
\* is_file_fully_downloaded(file_path, wait_time=1, check_interval=1)
WaitTime == 1
CheckInterval == 1

(***************************************************************************)
(* Configuration (autofile/config.py): a scaled-down category table with   *)
(* the shape of DEFAULT_FILE_TYPES.  ".p" is both skip-listed and listed   *)
(* under Docs; ".t" is listed under Docs and, later, under Media (as ".sh" *)
(* is under Programs and Development).                                     *)
(***************************************************************************)
Dot == "."

file_types ==
    << [category |-> "Docs",  extensions |-> {<<Dot, "t">>, <<Dot, "p">>}],
       [category |-> "Media", extensions |-> {<<Dot, "j">>, <<Dot, "t">>}] >>

SKIP_EXTENSIONS == { <<Dot, "p">> }

DOWNLOADS_FOLDER_PATH == "Downloads"

PATH_TO_FOLDERS ==
    [c \in {"Downloads", "Docs", "Media", "Memes"} |->
        CASE c = "Memes" -> "Media/Memes"
          [] OTHER       -> c]

DestFolders == { PATH_TO_FOLDERS[c] : c \in {"Docs", "Media", "Memes"} }

\* names that occur in the watched directory
nDoc   == <<"a", Dot, "t">>
nMedia == <<"b", Dot, "j">>
nSkip  == <<"c", Dot, "P">>
nPlain == <<"d", Dot, "x">>
nLate  == <<"e", Dot, "t">>

InitialNames == {nDoc, nMedia, nSkip}
LateNames    == {nLate}
Names        == InitialNames \cup LateNames \cup {nPlain}

\* names that occur in a destination folder: a name with one dot, one without
\* a dot and one with two dots, each with its numbered variants
nFile     == <<"f", Dot, "t">>
nFile1    == <<"f", "_", "(", "1", ")", Dot, "t">>
nFile2    == <<"f", "_", "(", "2", ")", Dot, "t">>
nReport   == <<"r">>
nReport1  == <<"r", "_", "(", "1", ")">>
nArchive  == <<"a", Dot, "b", Dot, "g">>
nArchive1 == <<"a", Dot, "b", "_", "(", "1", ")", Dot, "g">>

EntryNames  == {nFile, nReport, nArchive}
FolderNames == {nFile, nFile1, nFile2, nReport, nReport1, nArchive, nArchive1}

(***************************************************************************)
(* Pure helpers.                                                           *)
(***************************************************************************)
\* str.lower on one character
LowerChar(c) ==
    CASE c = "P" -> "p"
      [] c = "T" -> "t"
      [] c = "J" -> "j"
      [] c = "X" -> "x"
      [] OTHER   -> c

Lower(s) == [i \in 1..Len(s) |-> LowerChar(s[i])]

\* index of the last dot of s, 0 when there is none (str.rfind)
LastDot(s) ==
    IF \E i \in 1..Len(s) : s[i] = Dot
    THEN CHOOSE i \in 1..Len(s) :
            /\ s[i] = Dot
            /\ \A j \in (i+1)..Len(s) : s[j] # Dot
    ELSE 0

\* os.path.splitext on a base name: the extension starts at the last dot,
\* unless only dots precede it
SplitFirstDot(s) ==
    LET d == IF \E i \in 1..Len(s) : s[i] = Dot
             THEN CHOOSE i \in 1..Len(s) :
                     s[i] = Dot /\ \A j \in 1..(i-1) : s[j] # Dot
             ELSE 0
    IN IF d > 1
       THEN << SubSeq(s, 1, d-1), SubSeq(s, d, Len(s)) >>
       ELSE << s, << >> >>

SplitExt(s) ==
    LET d == LastDot(s) IN
    IF d > 0 /\ \E k \in 1..(d-1) : s[k] # Dot
    THEN << SubSeq(s, 1, d-1), SubSeq(s, d, Len(s)) >>
    ELSE << s, << >> >>

\* str(n) for a natural number
Digit(n) ==
    CASE n = 0 -> "0" [] n = 1 -> "1" [] n = 2 -> "2" [] n = 3 -> "3"
      [] n = 4 -> "4" [] n = 5 -> "5" [] n = 6 -> "6" [] n = 7 -> "7"
      [] n = 8 -> "8" [] OTHER -> "9"

RECURSIVE Str(_)
Str(n) == IF n < 10 THEN << Digit(n) >> ELSE Str(n \div 10) \o << Digit(n % 10) >>

\* os.path.basename / os.path.join on <<directory, name>> paths
Basename(path) == path[2]
Join(dir, name) == << dir, name >>

\* should_skip_by_extension(filename)
SkipNoLower(filename) == SplitExt(filename)[2] \in SKIP_EXTENSIONS

should_skip_by_extension(filename) ==
    SplitExt(Lower(filename))[2] \in SKIP_EXTENSIONS

\* f"{file_name}_{'('+str(counter)+')'}{extension}"
Numbered(entry_name, counter) ==
    SplitExt(entry_name)[1] \o << "_", "(" >> \o Str(counter) \o << ")" >>
        \o SplitExt(entry_name)[2]

\* os.path.exists(path) for a path below a folder
Exists(files, path) == path \in DOMAIN files

\* check_name(dest_folder, entry_name) against the files present
NumberedUnchecked(files, dest_folder, entry_name, counter) ==
    Join(dest_folder, Numbered(entry_name, counter))

RECURSIVE FirstFree(_, _, _, _)
FirstFree(files, dest_folder, entry_name, counter) ==
    IF Exists(files, Join(dest_folder, Numbered(entry_name, counter)))
    THEN FirstFree(files, dest_folder, entry_name, counter + 1)
    ELSE Join(dest_folder, Numbered(entry_name, counter))

NameUnchecked(files, dest_folder, entry_name) == Join(dest_folder, entry_name)

check_name(files, dest_folder, entry_name) ==
    IF Exists(files, Join(dest_folder, entry_name))
    THEN FirstFree(files, dest_folder, entry_name, 1)
    ELSE Join(dest_folder, entry_name)

\* the loop of resolve_destination: index of the first category, in the
\* order of file_types, whose list holds ext; 0 when there is none
FirstCategoryOrFirst(ext) ==
    IF \E i \in 1..Len(file_types) : ext \in file_types[i].extensions
    THEN CHOOSE i \in 1..Len(file_types) :
            /\ ext \in file_types[i].extensions
            /\ \A j \in 1..(i-1) : ext \notin file_types[j].extensions
    ELSE 1

LastCategory(ext) ==
    IF \E i \in 1..Len(file_types) : ext \in file_types[i].extensions
    THEN CHOOSE i \in 1..Len(file_types) :
            /\ ext \in file_types[i].extensions
            /\ \A j \in (i+1)..Len(file_types) : ext \notin file_types[j].extensions
    ELSE 0

FirstCategory(ext) ==
    IF \E i \in 1..Len(file_types) : ext \in file_types[i].extensions
    THEN CHOOSE i \in 1..Len(file_types) :
            /\ ext \in file_types[i].extensions
            /\ \A j \in 1..(i-1) : ext \notin file_types[j].extensions
    ELSE 0

\* whether resolve_destination(path, ask_meme) reaches auto_gui.meme_yes_no()
NeedsPromptAnyMatch(files, enabled, path, ask_meme) ==
    /\ ~ should_skip_by_extension(Basename(path))
    /\ path \in DOMAIN files
    /\ \E i \in 1..Len(file_types) :
         /\ Lower(SplitExt(Basename(path))[2]) \in file_types[i].extensions
         /\ file_types[i].category = "Media"
    /\ enabled /\ ask_meme

NeedsPrompt(files, enabled, path, ask_meme) ==
    LET i == FirstCategory(Lower(SplitExt(Basename(path))[2])) IN
    /\ ~ should_skip_by_extension(Basename(path))
    /\ path \in DOMAIN files
    /\ i > 0
    /\ file_types[i].category = "Media" /\ enabled /\ ask_meme

\* resolve_destination(path, ask_meme) where the prompt is not reached;
\* "None" stands for None
ResolveNoPrompt(files, path) ==
    LET i == FirstCategory(Lower(SplitExt(Basename(path))[2])) IN
    IF should_skip_by_extension(Basename(path)) \/ path \notin DOMAIN files
    THEN "None"
    ELSE IF i = 0 THEN "None" ELSE PATH_TO_FOLDERS[file_types[i].category]

\* resolve_destination's return once meme_yes_no() has answered
MemeSwapped(answer) ==
    IF answer THEN PATH_TO_FOLDERS["Media"] ELSE PATH_TO_FOLDERS["Memes"]

MemeChoice(answer) ==
    IF answer THEN PATH_TO_FOLDERS["Memes"] ELSE PATH_TO_FOLDERS["Media"]

(***************************************************************************)
(* State.                                                                  *)
(***************************************************************************)
VARIABLES
    fs,            \* the files: [path -> [id, size, origin]]
    dirs,          \* the directories that exist
    meme_enabled,  \* sorter.meme_enabled
    mv,            \* per calling thread, its activation of sort_file or
                   \* resolve_destination
    sw,            \* the activation of sort_files
    observer,      \* tray.observer: "None" or "Observer"
    th,            \* the observer's dispatch thread, in on_modified
    queue,         \* the observer's event queue
    env,           \* what the environment has done so far
    hist,          \* what the collaborators have seen so far
    tray,          \* the tray application: its threads, observers and menu
    cfg            \* the activation of a function of autofile/config.py

vars ==
    << fs, dirs, meme_enabled, mv, sw, observer, th, queue, env, hist, tray,
       cfg >>

Movers == {"batch", "live", "direct"}

NoPath == << >>

Idle ==
    [fn |-> "none", pc |-> "idle", path |-> NoPath, notify |-> FALSE,
     planned_dest |-> "None", ask_meme |-> FALSE, dest_folder |-> "None",
     destination_path |-> NoPath, prev_size |-> -1, stable_count |-> 0,
     ret |-> NoPath, exc |-> "none", answer |-> "none",
     wait_time |-> 0, check_interval |-> 0, downloaded |-> FALSE,
     polls |-> << >>, all_differ |-> TRUE, was_file |-> FALSE, prompts |-> 0,
     reads |-> 0, slept |-> 0, same_size |-> TRUE]

\* a call sort_file(path, notify, planned_dest)
SortFileCall(path, notify, planned_dest) ==
    [Idle EXCEPT !.fn = "sort_file", !.pc = "start", !.path = path,
                 !.notify = notify, !.planned_dest = planned_dest]

\* a call resolve_destination(path, ask_meme)
ResolveCall(path, ask_meme) ==
    [Idle EXCEPT !.fn = "resolve_destination", !.pc = "resolve",
                 !.path = path, !.ask_meme = ask_meme]

IsFile(path) == path \in DOMAIN fs

\* the file system after shutil.move(src, dst): os.rename within one volume,
\* which replaces a file already at dst
CopiedKeepSource(files, src, dst) ==
    [p \in DOMAIN files \cup {dst} |->
        IF p = dst THEN files[src] ELSE files[p]]

Renamed(files, src, dst) ==
    [p \in (DOMAIN files \ {src}) \cup {dst} |->
        IF p = dst THEN files[src] ELSE files[p]]

\* legacy tells the sort_files of main.py from the one of autofile/sorter.py
IdleSweep ==
    [pc |-> "idle", raw_files |-> << >>, i |-> 0, candidates |-> << >>,
     total |-> 0, done |-> 0, moved_files |-> << >>, aborted |-> FALSE,
     legacy |-> FALSE]

NoEvent == [src_path |-> NoPath, is_directory |-> FALSE]

\* how a finished sort_file(path, ...) ended for its caller: with a
\* destination path, with None, or with an exception
Outcome(caller, r) ==
    [by |-> caller, path |-> r.path,
     result |-> IF r.pc = "raised" THEN r.exc
                ELSE IF r.ret # NoPath THEN "moved" ELSE "None"]

\* moves and asked count, per source path, the moves made and the prompts
\* shown; swept tells how the call that has just returned ended when it was
\* sort_files(), and prior says that the call before the present one was a
\* sort_files() that returned without an exception in its try block
NoHist ==
    [prompts |-> {}, calls |-> {}, notified |-> {}, late |-> {}, made |-> {},
     progress |-> << >>, complete |-> 0, summaries |-> 0, ending |-> << >>,
     moves |-> << >>, asked |-> << >>, swept |-> "no", prior |-> FALSE]

\* the counts b with one more for x
Counted(b, x) ==
    [y \in DOMAIN b \cup {x} |->
        IF y = x THEN (IF x \in DOMAIN b THEN b[x] ELSE 0) + 1 ELSE b[y]]

\* the count of x in b
CountOf(b, x) == IF x \in DOMAIN b THEN b[x] ELSE 0

\* the threads that call start_watching and stop_watching: the main thread
\* (main, line 205) and the thread on which the tray icon runs its callbacks
Threads == {"main", "tray"}

\* the Observer() objects, in the order of their construction
ObserverName(k) == "Observer" \o ToString(k)

Observers == { ObserverName(k) : k \in 1..MaxObservers }

\* the tray application when it is not running: no thread is in a function
\* of tray.py, no observer has been constructed, and the menu is as main
\* builds it (lines 194-203: Start disabled, Stop enabled)
NoTray ==
    [thread |-> [t \in Threads |-> [fn |-> "none", pc |-> "idle"]],
     menu |-> [start |-> FALSE, stop |-> TRUE],
     icon |-> "none",
     obs |-> [o \in Observers |-> "unused"],
     handler |-> [o \in Observers |-> "idle"],
     made |-> 0, clicks |-> 0, events |-> 0, exited |-> FALSE,
     stopped_clean |-> FALSE]

\* no function of config.py has been called
NoConfigCall == [fn |-> "none", pc |-> "idle"]

(***************************************************************************)
(* sort_file and resolve_destination, one step per access to the file      *)
(* system.                                                                 *)
(***************************************************************************)
\* the condition of lines 155-156
SkipsOnlyListed(files, path) == should_skip_by_extension(Basename(path))

SkipsAtStart(files, path) ==
    should_skip_by_extension(Basename(path)) \/ path \notin DOMAIN files

\* sort_file, lines 155-164 with planned_dest given, 155-157 otherwise;
\* was_file keeps whether the path was a regular file at line 155
SfStart(m) ==
    /\ mv[m].pc = "start"
    /\ LET r == [mv[m] EXCEPT !.was_file = mv[m].path \in DOMAIN fs] IN
       mv' = [mv EXCEPT ![m] =
         IF SkipsAtStart(fs, r.path)
         THEN [r EXCEPT !.pc = "ret", !.ret = NoPath]
         ELSE IF r.planned_dest # "None"
              THEN [r EXCEPT !.pc = "mkdir", !.dest_folder = r.planned_dest]
              ELSE [r EXCEPT !.pc = "resolve", !.ask_meme = TRUE]]
    /\ UNCHANGED << fs, dirs, meme_enabled, sw, observer, th, queue, env, hist, tray, cfg >>

\* where resolve_destination's caller continues with the folder d
AfterResolve(r, d) ==
    IF r.fn = "resolve_destination" \/ d = "None"
    THEN [r EXCEPT !.pc = "ret", !.dest_folder = d, !.ret = NoPath]
    ELSE [r EXCEPT !.pc = "mkdir", !.dest_folder = d]

\* resolve_destination, lines 123-136, up to the call of meme_yes_no
RdResolve(m) ==
    /\ mv[m].pc = "resolve"
    /\ IF NeedsPrompt(fs, meme_enabled, mv[m].path, mv[m].ask_meme)
       THEN /\ mv' = [mv EXCEPT ![m].pc = "prompt", ![m].prompts = @ + 1]
            /\ hist' = [hist EXCEPT !.prompts = @ \cup {m},
                                    !.asked = Counted(@, mv[m].path)]
       ELSE /\ mv' = [mv EXCEPT ![m] =
                        AfterResolve(mv[m], ResolveNoPrompt(fs, mv[m].path))]
            /\ hist' = hist
    /\ UNCHANGED << fs, dirs, meme_enabled, sw, observer, th, queue, env, tray, cfg >>

\* auto_gui.meme_yes_no returns, lines 130-134: True after a click on Yes,
\* False after a click on No or when the window was destroyed without a click
RdPrompt(m) ==
    /\ mv[m].pc = "prompt"
    /\ \E answer \in BOOLEAN :
         mv' = [mv EXCEPT ![m] =
                  AfterResolve([mv[m] EXCEPT
                                  !.answer = IF answer THEN "yes" ELSE "no"],
                               MemeChoice(answer))]
    /\ UNCHANGED << fs, dirs, meme_enabled, sw, observer, th, queue, env, hist, tray, cfg >>

\* os.makedirs(dest_folder, exist_ok=True), line 165,
\* destination_path = check_name(dest_folder, entry_name), line 166, and the
\* first two assignments of is_file_fully_downloaded, lines 97-98
SfPrepare(m) ==
    /\ mv[m].pc = "mkdir"
    /\ dirs' = dirs \cup {mv[m].dest_folder}
    /\ LET r == mv[m] IN
       mv' = [mv EXCEPT ![m] =
         [r EXCEPT !.pc = "poll",
                   !.destination_path =
                       check_name(fs, r.dest_folder, Basename(r.path)),
                   !.wait_time = WaitTime, !.check_interval = CheckInterval,
                   !.prev_size = -1, !.stable_count = 0]]
    /\ hist' = [hist EXCEPT !.made = @ \cup {m}]
    /\ UNCHANGED << fs, meme_enabled, sw, observer, th, queue, env, tray, cfg >>

\* lines 101-105: the streak after a poll that read current_size
StreakKeptOnChange(stable_count, prev_size, current_size, check_interval) ==
    IF current_size = prev_size THEN stable_count + check_interval
    ELSE stable_count

StreakAlwaysGrows(stable_count, prev_size, current_size, check_interval) ==
    stable_count + check_interval

NextStreak(stable_count, prev_size, current_size, check_interval) ==
    IF current_size = prev_size THEN stable_count + check_interval ELSE 0

\* no call of os.path.getsize by the activation r, the one that returns
\* current_size included, has returned a size other than the one before it
SameSize(r, current_size) ==
    /\ r.same_size
    /\ r.polls = << >> \/ r.polls[Len(r.polls)] = current_size

\* the last MaxWait + 1 values that os.path.getsize has returned to a call
LastPolls(polls, current_size) ==
    LET q == Append(polls, current_size) IN
    IF Len(q) > MaxWait + 1 THEN Tail(q) ELSE q

\* one turn of the loop of is_file_fully_downloaded, lines 99-106, and its
\* return when the loop ends; os.path.getsize raises FileNotFoundError when
\* the file is gone; as long as same_size holds, reads counts the calls of
\* os.path.getsize and slept adds up the arguments of time.sleep
SfPoll(m) ==
    /\ mv[m].pc = "poll"
    /\ LET r == mv[m] IN
       mv' = [mv EXCEPT ![m] =
         IF ~ IsFile(r.path)
         THEN [r EXCEPT !.pc = "raised", !.exc = "FileNotFoundError"]
         ELSE LET current_size == fs[r.path].size
                  count == NextStreak(r.stable_count, r.prev_size,
                                      current_size, r.check_interval)
              IN [r EXCEPT
                    !.prev_size = current_size,
                    !.stable_count = count,
                    !.polls = LastPolls(r.polls, current_size),
                    !.reads = IF SameSize(r, current_size)
                              THEN r.reads + 1 ELSE 0,
                    !.slept = IF SameSize(r, current_size)
                              THEN r.slept + r.check_interval ELSE 0,
                    !.same_size = SameSize(r, current_size),
                    !.all_differ = r.all_differ
                                     /\ (r.polls = << >>
                                          \/ r.polls[Len(r.polls)] # current_size),
                    !.downloaded = ~ (count < r.wait_time),
                    !.pc = IF count < r.wait_time THEN "poll"
                           ELSE IF r.fn = "sort_file" THEN "move"
                           ELSE "ret"]]
    /\ UNCHANGED << fs, dirs, meme_enabled, sw, observer, th, queue, env, hist, tray, cfg >>

\* shutil.move(path, destination_path) and what follows it, lines 168-187
SfMove(m) ==
    /\ mv[m].pc = "move"
    /\ IF ~ IsFile(mv[m].path)
       THEN /\ mv' = [mv EXCEPT ![m].pc = "raised",
                                ![m].exc = "FileNotFoundError"]
            /\ UNCHANGED << fs, hist >>
       ELSE /\ fs' = Renamed(fs, mv[m].path, mv[m].destination_path)
            /\ mv' = [mv EXCEPT ![m].pc = "ret",
                                ![m].ret = mv[m].destination_path]
            /\ hist' = [hist EXCEPT
                 !.notified = IF mv[m].notify THEN @ \cup {m} ELSE @,
                 !.moves = Counted(@, mv[m].path)]
    /\ UNCHANGED << dirs, meme_enabled, sw, observer, th, queue, env, tray, cfg >>

\* an I/O error other than a missing file (permission, lock, disk full) in
\* os.makedirs, os.path.getsize or shutil.move: nothing in sort_file catches it
SfIOError(m) ==
    /\ mv[m].pc \in {"mkdir", "poll", "move"}
    /\ env.used < MaxEnv
    /\ env' = [env EXCEPT !.used = @ + 1]
    /\ mv' = [mv EXCEPT ![m].pc = "raised", ![m].exc = "OSError"]
    /\ UNCHANGED << fs, dirs, meme_enabled, sw, observer, th, queue, hist, tray, cfg >>

\* auto_gui.meme_yes_no raises (tk.Tk() finds no display, or the Tk calls
\* fail): nothing in meme_yes_no, resolve_destination or sort_file catches it
PromptFail(m) ==
    /\ mv[m].pc = "prompt"
    /\ env.used < MaxEnv
    /\ env' = [env EXCEPT !.used = @ + 1]
    /\ mv' = [mv EXCEPT ![m].pc = "raised", ![m].exc = "TclError",
                         ![m].answer = "failed"]
    /\ UNCHANGED << fs, dirs, meme_enabled, sw, observer, th, queue, hist, tray, cfg >>

MoverStep(m) ==
    \/ SfStart(m)
    \/ RdResolve(m)
    \/ RdPrompt(m)
    \/ SfPrepare(m)
    \/ SfPoll(m)
    \/ SfMove(m)

(***************************************************************************)
(* sort_files (autofile/sorter.py, lines 191-250).                         *)
(***************************************************************************)
\* the orders in which os.scandir may yield the members of S
Orders(S) ==
    { q \in [1..Cardinality(S) -> S] :
        \A a, b \in 1..Cardinality(S) : a # b => q[a] # q[b] }

\* line 203: not os.path.exists(DOWNLOADS_FOLDER_PATH)
SourceNeverMissing(ds) == FALSE

SourceMissing(ds) == DOWNLOADS_FOLDER_PATH \notin ds

\* lines 203-206: the directory is listed once; os.scandir raises
\* FileNotFoundError on a directory that does not exist, which line 249
\* catches
SweepScan ==
    /\ sw.pc = "scan"
    /\ IF SourceMissing(dirs)
       THEN sw' = [sw EXCEPT !.pc = "done"]
       ELSE IF DOWNLOADS_FOLDER_PATH \notin dirs
       THEN sw' = [sw EXCEPT !.pc = "done", !.aborted = TRUE]
       ELSE \E q \in Orders({p \in DOMAIN fs : p[1] = DOWNLOADS_FOLDER_PATH}) :
              sw' = [sw EXCEPT !.pc = "filter", !.raw_files = q, !.i = 1]
    /\ UNCHANGED << fs, dirs, meme_enabled, mv, observer, th, queue, env, hist, tray, cfg >>

\* what resolve_destination(path, ask_meme) may return, and whether it
\* called meme_yes_no on the way
ResolveOutcomes(files, enabled, path, ask_meme) ==
    IF NeedsPrompt(files, enabled, path, ask_meme)
    THEN { [dest |-> MemeChoice(answer), prompted |-> TRUE] :
             answer \in BOOLEAN }
    ELSE { [dest |-> ResolveNoPrompt(files, path), prompted |-> FALSE] }

\* the ask_meme argument of line 212
BatchAsks == TRUE

BatchAskMeme == FALSE

\* lines 208-214, one turn: the skip filter, then
\* resolve_destination(p, ask_meme=False)
SweepFilter ==
    /\ sw.pc = "filter"
    /\ sw.i <= Len(sw.raw_files)
    /\ LET p == sw.raw_files[sw.i] IN
       IF should_skip_by_extension(Basename(p))
       THEN /\ sw' = [sw EXCEPT !.i = @ + 1]
            /\ hist' = hist
       ELSE \E o \in ResolveOutcomes(fs, meme_enabled, p, BatchAskMeme) :
              /\ sw' = [sw EXCEPT
                   !.i = @ + 1,
                   !.candidates = IF o.dest # "None"
                                  THEN Append(@, << p, o.dest >>)
                                  ELSE @]
              /\ hist' = [hist EXCEPT
                   !.prompts = IF o.prompted THEN @ \cup {"batch"} ELSE @,
                   !.asked = IF o.prompted THEN Counted(@, p) ELSE @]
    /\ UNCHANGED << fs, dirs, meme_enabled, mv, observer, th, queue, env, tray, cfg >>

\* lines 215-220
SweepBegin ==
    /\ sw.pc = "filter"
    /\ sw.i > Len(sw.raw_files)
    /\ IF Len(sw.candidates) = 0
       THEN /\ sw' = [sw EXCEPT !.pc = "done", !.total = 0,
                                !.raw_files = << >>]
            /\ hist' = hist
       ELSE /\ sw' = [sw EXCEPT !.pc = "loop", !.total = Len(sw.candidates),
                                !.done = 0, !.i = 1, !.raw_files = << >>]
            /\ hist' = [hist EXCEPT
                 !.progress = << << 0, Len(sw.candidates) >> >>]
    /\ UNCHANGED << fs, dirs, meme_enabled, mv, observer, th, queue, env, tray, cfg >>

\* the candidate the loop of line 221 takes in its i-th turn: the i-th entry
\* of the list built before the loop
LoopCandidate(s, files) == s.candidates[s.i]

\* lines 221-225: sort_file(file_path, notify=False, planned_dest=dest_folder);
\* the sort_files of main.py calls progress_update(done, total) first
\* (main.py, line 753)
SweepCall ==
    /\ sw.pc = "loop"
    /\ sw.i <= sw.total
    /\ sw' = [sw EXCEPT !.pc = "call"]
    /\ mv' = [mv EXCEPT !["batch"] =
                SortFileCall(LoopCandidate(sw, fs)[1], FALSE,
                             LoopCandidate(sw, fs)[2])]
    /\ hist' = IF sw.legacy
               THEN [hist EXCEPT !.progress = Append(@, << sw.done, sw.total >>)]
               ELSE hist
    /\ UNCHANGED << fs, dirs, meme_enabled, observer, th, queue, env, tray, cfg >>

\* lines 226-229
SweepCallRet ==
    /\ sw.pc = "call"
    /\ mv["batch"].pc = "ret"
    /\ sw' = [sw EXCEPT
         !.pc = "loop",
         !.i = @ + 1,
         !.done = @ + 1,
         !.moved_files = IF mv["batch"].ret # NoPath
                         THEN Append(@, Basename(mv["batch"].ret))
                         ELSE @]
    /\ hist' = [hist EXCEPT
         !.progress = Append(@, << sw.done + 1, sw.total >>),
         !.calls = @ \cup {Outcome("batch", mv["batch"])}]
    /\ mv' = [mv EXCEPT !["batch"] = Idle]
    /\ UNCHANGED << fs, dirs, meme_enabled, observer, th, queue, env, tray, cfg >>

\* line 232: whether the summary notification is shown
SummaryAlways(moved_files) == TRUE

SummaryDue(moved_files) == Len(moved_files) > 0

\* lines 230-248: progress_complete, then the summary when a file was moved
SweepComplete ==
    /\ sw.pc = "loop"
    /\ sw.i > sw.total
    /\ sw' = [sw EXCEPT !.pc = "done"]
    /\ hist' = [hist EXCEPT
         !.complete = @ + 1,
         !.summaries = IF SummaryDue(sw.moved_files) THEN @ + 1 ELSE @,
         !.ending = IF SummaryDue(sw.moved_files)
                    THEN << "progress_complete", "show_notification" >>
                    ELSE << "progress_complete" >>]
    /\ UNCHANGED << fs, dirs, meme_enabled, mv, observer, th, queue, env, tray, cfg >>

\* lines 249-250: an exception out of the try block ends sort_files
SweepExcept ==
    /\ sw.pc = "call"
    /\ mv["batch"].pc = "raised"
    /\ ~ sw.legacy
    /\ sw' = [sw EXCEPT !.pc = "done", !.aborted = TRUE]
    /\ hist' = [hist EXCEPT !.calls = @ \cup {Outcome("batch", mv["batch"])}]
    /\ mv' = [mv EXCEPT !["batch"] = Idle]
    /\ UNCHANGED << fs, dirs, meme_enabled, observer, th, queue, env, tray, cfg >>

\* main.py, lines 777-779: the sort_files of main.py logs the exception and
\* calls sys.exit(1)
LegacySweepExcept ==
    /\ sw.pc = "call"
    /\ mv["batch"].pc = "raised"
    /\ sw.legacy
    /\ sw' = [sw EXCEPT !.pc = "done", !.aborted = TRUE]
    /\ hist' = [hist EXCEPT !.calls = @ \cup {Outcome("batch", mv["batch"])}]
    /\ mv' = [mv EXCEPT !["batch"] = Idle]
    /\ tray' = [tray EXCEPT !.exited = TRUE]
    /\ UNCHANGED << fs, dirs, meme_enabled, observer, th, queue, env, cfg >>

(***************************************************************************)
(* The watcher (autofile/tray.py).                                         *)
(***************************************************************************)
\* start_watching, lines 156-162: the observer is started, then sort_files
\* runs on the calling thread
StartWatching ==
    /\ observer = "None"
    /\ sw.pc = "idle"
    /\ observer' = "Observer"
    /\ sw' = [IdleSweep EXCEPT !.pc = "scan"]
    /\ UNCHANGED << fs, dirs, meme_enabled, mv, th, queue, env, hist, tray, cfg >>

\* the observer thread takes the next event and enters on_modified, which
\* sleeps first (line 137)
Dispatch ==
    /\ observer = "Observer"
    /\ th.pc = "idle"
    /\ queue # << >>
    /\ th' = [pc |-> "sleep", event |-> Head(queue)]
    /\ queue' = Tail(queue)
    /\ UNCHANGED << fs, dirs, meme_enabled, mv, sw, observer, env, hist, tray, cfg >>

\* on_modified, lines 139-143: the events it returns on
IgnoresSkipListedOnly(event) ==
    should_skip_by_extension(Basename(event.src_path))

HandlerIgnores(event) ==
    event.is_directory \/ should_skip_by_extension(Basename(event.src_path))

\* on_modified after the sleep, lines 138-144
OnModified ==
    /\ th.pc = "sleep"
    /\ IF HandlerIgnores(th.event)
       THEN /\ th' = [pc |-> "idle", event |-> NoEvent]
            /\ mv' = mv
       ELSE /\ th' = [th EXCEPT !.pc = "call"]
            /\ mv' = [mv EXCEPT !["live"] =
                        SortFileCall(th.event.src_path, TRUE, "None")]
    /\ UNCHANGED << fs, dirs, meme_enabled, sw, observer, queue, env, hist, tray, cfg >>

\* sort_file returns to on_modified, which returns to the observer thread
OnModifiedRet ==
    /\ th.pc = "call"
    /\ mv["live"].pc = "ret"
    /\ th' = [pc |-> "idle", event |-> NoEvent]
    /\ hist' = [hist EXCEPT !.calls = @ \cup {Outcome("live", mv["live"])}]
    /\ mv' = [mv EXCEPT !["live"] = Idle]
    /\ UNCHANGED << fs, dirs, meme_enabled, sw, observer, queue, env, tray, cfg >>

\* an exception leaves sort_file and on_modified (nothing in lines 125-144
\* catches it) and ends the observer thread that dispatched the event
OnModifiedRaise ==
    /\ th.pc = "call"
    /\ mv["live"].pc = "raised"
    /\ th' = [pc |-> "crashed", event |-> NoEvent]
    /\ hist' = [hist EXCEPT !.calls = @ \cup {Outcome("live", mv["live"])}]
    /\ mv' = [mv EXCEPT !["live"] = Idle]
    /\ UNCHANGED << fs, dirs, meme_enabled, sw, observer, queue, env, tray, cfg >>

(***************************************************************************)
(* The tray application (autofile/tray.py), one step per access to the     *)
(* global observer.  start_watching runs on the main thread (main, line    *)
(* 205) and, like stop_watching, on the thread of the tray callbacks; no   *)
(* lock guards observer.  Of sort_files only its extent is kept here, and  *)
(* of a handler only that it is running.                                   *)
(*                                                                         *)
(* An Observer is "created" by Observer(), "running" after start(),        *)
(* "stopping" after stop() until its thread has ended, then "stopped";     *)
(* stop() before start() leaves it "cancelled": start() then runs a thread *)
(* that ends at once.  join() raises RuntimeError on a thread that was     *)
(* never started, start() on one that was started before.                  *)
(***************************************************************************)
\* thread t is at position pc of tray.py, and the process is alive
At(t, pc) == ~ tray.exited /\ tray.thread[t].pc = pc

\* thread t is inside start_watching
InStartWatching(t) ==
    tray.thread[t].pc \in {"157", "159", "160", "161", "162", "sort_files"}

\* where thread t continues when start_watching returns: main returns
\* (line 205), start_action goes on to update_menu (line 60)
AfterStart(t) == IF t = "main" THEN "done" ELSE "update_menu"

\* an exception leaves start_watching or stop_watching on thread t: main
\* logs it and calls sys.exit(1) (lines 206-208), a tray callback ends
\* without reaching update_menu
Raised(tr, t) ==
    IF t = "main"
    THEN [tr EXCEPT !.thread[t].pc = "exit", !.exited = TRUE]
    ELSE [tr EXCEPT !.thread[t] = [fn |-> "none", pc |-> "idle"]]

\* main, line 205: start_watching() is called after run_detached()
MainCall ==
    /\ At("main", "205")
    /\ tray' = [tray EXCEPT !.thread["main"].pc = "157",
                            !.stopped_clean = FALSE]
    /\ UNCHANGED << fs, dirs, meme_enabled, mv, sw, observer, th, queue, env, hist, cfg >>

\* start_watching, line 157: if observer is None
SwTest(t) ==
    /\ At(t, "157")
    /\ tray' = [tray EXCEPT !.thread[t].pc =
                  IF observer = "None" THEN "159" ELSE AfterStart(t)]
    /\ UNCHANGED << fs, dirs, meme_enabled, mv, sw, observer, th, queue, env, hist, cfg >>

\* lines 158-159: observer = Observer()
SwCreate(t) ==
    /\ At(t, "159")
    /\ tray.made < MaxObservers
    /\ observer' = ObserverName(tray.made + 1)
    /\ tray' = [tray EXCEPT !.thread[t].pc = "160",
                            !.made = @ + 1,
                            !.obs[ObserverName(tray.made + 1)] = "created"]
    /\ UNCHANGED << fs, dirs, meme_enabled, mv, sw, th, queue, env, hist, cfg >>

\* line 160: observer.schedule(...), on whatever observer holds now
SwSchedule(t) ==
    /\ At(t, "160")
    /\ tray' = IF observer = "None"
               THEN Raised(tray, t)
               ELSE [tray EXCEPT !.thread[t].pc = "161"]
    /\ UNCHANGED << fs, dirs, meme_enabled, mv, sw, observer, th, queue, env, hist, cfg >>

\* line 161: observer.start(), on whatever observer holds now
SwStart(t) ==
    /\ At(t, "161")
    /\ tray' =
         IF observer = "None" THEN Raised(tray, t)
         ELSE IF tray.obs[observer] = "created"
         THEN [tray EXCEPT !.thread[t].pc = "162", !.obs[observer] = "running"]
         ELSE IF tray.obs[observer] = "cancelled"
         THEN [tray EXCEPT !.thread[t].pc = "162", !.obs[observer] = "stopped"]
         ELSE Raised(tray, t)
    /\ UNCHANGED << fs, dirs, meme_enabled, mv, sw, observer, th, queue, env, hist, cfg >>

\* line 162: sort_files() begins on the calling thread
SwSweepBegin(t) ==
    /\ At(t, "162")
    /\ tray' = [tray EXCEPT !.thread[t].pc = "sort_files"]
    /\ UNCHANGED << fs, dirs, meme_enabled, mv, sw, observer, th, queue, env, hist, cfg >>

\* line 162: sort_files() returns, and start_watching with it
SwSweepEnd(t) ==
    /\ At(t, "sort_files")
    /\ tray' = [tray EXCEPT !.thread[t].pc = AfterStart(t)]
    /\ UNCHANGED << fs, dirs, meme_enabled, mv, sw, observer, th, queue, env, hist, cfg >>

\* the user clicks Start, which the menu offers: start_action, lines 59-60
ClickStart ==
    /\ At("tray", "idle")
    /\ tray.icon = "running"
    /\ tray.menu.start
    /\ tray.clicks < MaxClicks
    /\ tray' = [tray EXCEPT
         !.thread["tray"] = [fn |-> "start_action", pc |-> "157"],
         !.clicks = @ + 1,
         !.stopped_clean = FALSE]
    /\ UNCHANGED << fs, dirs, meme_enabled, mv, sw, observer, th, queue, env, hist, cfg >>

\* the user clicks Stop, which the menu offers: stop_action, lines 75-76
ClickStop ==
    /\ At("tray", "idle")
    /\ tray.icon = "running"
    /\ tray.menu.stop
    /\ tray.clicks < MaxClicks
    /\ tray' = [tray EXCEPT
         !.thread["tray"] = [fn |-> "stop_action", pc |-> "175"],
         !.clicks = @ + 1]
    /\ UNCHANGED << fs, dirs, meme_enabled, mv, sw, observer, th, queue, env, hist, cfg >>

\* the user clicks Quit: quit_action, line 91, icon.stop()
ClickQuit ==
    /\ At("tray", "idle")
    /\ tray.icon = "running"
    /\ tray.clicks < MaxClicks
    /\ tray' = [tray EXCEPT !.icon = "stopped", !.clicks = @ + 1]
    /\ UNCHANGED << fs, dirs, meme_enabled, mv, sw, observer, th, queue, env, hist, cfg >>

\* stop_watching, line 175: if observer is not None; stopped_clean keeps
\* that stop_watching has returned while no start_watching was under way
StTest ==
    /\ At("tray", "175")
    /\ tray' = IF observer # "None"
               THEN [tray EXCEPT !.thread["tray"].pc = "176"]
               ELSE [tray EXCEPT !.thread["tray"].pc = "update_menu",
                                 !.stopped_clean = ~ InStartWatching("main")]
    /\ UNCHANGED << fs, dirs, meme_enabled, mv, sw, observer, th, queue, env, hist, cfg >>

\* line 176: observer.stop()
StStop ==
    /\ At("tray", "176")
    /\ tray' =
         IF observer = "None" THEN Raised(tray, "tray")
         ELSE [tray EXCEPT
                 !.thread["tray"].pc = "177",
                 !.obs[observer] =
                     CASE @ = "created" -> "cancelled"
                       [] @ = "running" -> "stopping"
                       [] OTHER         -> @]
    /\ UNCHANGED << fs, dirs, meme_enabled, mv, sw, observer, th, queue, env, hist, cfg >>

\* line 177: observer.join() returns when the observer's thread has ended,
\* and raises when that thread was never started
StJoin ==
    /\ At("tray", "177")
    /\ \/ observer = "None"
       \/ tray.obs[observer] \in {"created", "cancelled", "stopped"}
    /\ tray' =
         IF observer = "None" THEN Raised(tray, "tray")
         ELSE IF tray.obs[observer] = "stopped"
         THEN [tray EXCEPT !.thread["tray"].pc = "178"]
         ELSE Raised(tray, "tray")
    /\ UNCHANGED << fs, dirs, meme_enabled, mv, sw, observer, th, queue, env, hist, cfg >>

\* line 178: observer = None, and stop_watching returns
StClear ==
    /\ At("tray", "178")
    /\ observer' = "None"
    /\ tray' = [tray EXCEPT !.thread["tray"].pc = "update_menu",
                            !.stopped_clean = ~ InStartWatching("main")]
    /\ UNCHANGED << fs, dirs, meme_enabled, mv, sw, th, queue, env, hist, cfg >>

\* update_menu, lines 107-119
UpdateMenu ==
    /\ At("tray", "update_menu")
    /\ tray' = [tray EXCEPT
         !.thread["tray"] = [fn |-> "none", pc |-> "idle"],
         !.menu = [start |-> observer = "None", stop |-> observer # "None"]]
    /\ UNCHANGED << fs, dirs, meme_enabled, mv, sw, observer, th, queue, env, hist, cfg >>

\* the thread of a stopped observer ends once its handler has returned
ObserverExit(o) ==
    /\ ~ tray.exited
    /\ tray.obs[o] = "stopping"
    /\ tray.handler[o] = "idle"
    /\ tray' = [tray EXCEPT !.obs[o] = "stopped"]
    /\ UNCHANGED << fs, dirs, meme_enabled, mv, sw, observer, th, queue, env, hist, cfg >>

\* a running observer dispatches an event to on_modified
HandlerBegin(o) ==
    /\ ~ tray.exited
    /\ tray.obs[o] = "running"
    /\ tray.handler[o] = "idle"
    /\ tray.events < MaxEvents
    /\ tray' = [tray EXCEPT !.handler[o] = "busy", !.events = @ + 1]
    /\ UNCHANGED << fs, dirs, meme_enabled, mv, sw, observer, th, queue, env, hist, cfg >>

\* on_modified returns
HandlerEnd(o) ==
    /\ ~ tray.exited
    /\ tray.handler[o] = "busy"
    /\ tray' = [tray EXCEPT !.handler[o] = "idle"]
    /\ UNCHANGED << fs, dirs, meme_enabled, mv, sw, observer, th, queue, env, hist, cfg >>

(***************************************************************************)
(* The environment: the file-system notifier, the user and other writers.  *)
(***************************************************************************)
InDownloads(files) == {p \in DOMAIN files : p[1] = DOWNLOADS_FOLDER_PATH}

\* the notifier reports a modification of a file of the watched directory
EmitFile ==
    /\ observer = "Observer"
    /\ env.emitted < MaxEvents
    /\ \E p \in InDownloads(fs) :
         queue' = Append(queue, [src_path |-> p, is_directory |-> FALSE])
    /\ env' = [env EXCEPT !.emitted = @ + 1]
    /\ UNCHANGED << fs, dirs, meme_enabled, mv, sw, observer, th, hist, tray, cfg >>

\* a directory inside the watched directory
SubFolder == "Downloads/s"

\* the observer is scheduled with recursive=True (line 160): the notifier
\* reports a modification of a file inside a subdirectory
EmitNested ==
    /\ observer = "Observer"
    /\ env.emitted < MaxEvents
    /\ \E p \in {q \in DOMAIN fs : q[1] = SubFolder} :
         queue' = Append(queue, [src_path |-> p, is_directory |-> FALSE])
    /\ env' = [env EXCEPT !.emitted = @ + 1]
    /\ UNCHANGED << fs, dirs, meme_enabled, mv, sw, observer, th, hist, tray, cfg >>

\* the notifier reports a modification of a directory
EmitDir ==
    /\ observer = "Observer"
    /\ env.emitted < MaxEvents
    /\ queue' = Append(queue, [src_path |-> << DOWNLOADS_FOLDER_PATH, <<"s">> >>,
                               is_directory |-> TRUE])
    /\ env' = [env EXCEPT !.emitted = @ + 1]
    /\ UNCHANGED << fs, dirs, meme_enabled, mv, sw, observer, th, hist, tray, cfg >>

\* the notifier reports one write of a file of the watched directory with a
\* burst of modification events
EmitBurst ==
    /\ observer = "Observer"
    /\ env.emitted = 0
    /\ \E p \in InDownloads(fs) :
         queue' = queue \o [k \in 1..MaxBurst |->
                              [src_path |-> p, is_directory |-> FALSE]]
    /\ env' = [env EXCEPT !.emitted = MaxBurst]
    /\ UNCHANGED << fs, dirs, meme_enabled, mv, sw, observer, th, hist, tray, cfg >>

\* a download appears in the watched directory
Arrive ==
    /\ env.used < MaxEnv
    /\ \E n \in LateNames :
         /\ << DOWNLOADS_FOLDER_PATH, n >> \notin DOMAIN fs
         /\ fs' = [p \in DOMAIN fs \cup {<< DOWNLOADS_FOLDER_PATH, n >>} |->
                     IF p = << DOWNLOADS_FOLDER_PATH, n >>
                     THEN [id |-> env.next_id, size |-> 1, origin |-> p]
                     ELSE fs[p]]
         /\ hist' = [hist EXCEPT
              !.late = IF sw.pc \in {"filter", "loop", "call"}
                       THEN @ \cup {<< DOWNLOADS_FOLDER_PATH, n >>}
                       ELSE @]
    /\ env' = [env EXCEPT !.used = @ + 1, !.next_id = @ + 1]
    /\ UNCHANGED << dirs, meme_enabled, mv, sw, observer, th, queue, tray, cfg >>

\* the user deletes a file of the watched directory
UserDelete ==
    /\ env.used < MaxEnv
    /\ \E p \in InDownloads(fs) :
         fs' = [q \in DOMAIN fs \ {p} |-> fs[q]]
    /\ env' = [env EXCEPT !.used = @ + 1]
    /\ UNCHANGED << dirs, meme_enabled, mv, sw, observer, th, queue, hist, tray, cfg >>

\* the user removes the watched directory, with the files in it, while no
\* call is in progress
RemoveDownloads ==
    /\ env.used < MaxEnv
    /\ \A m \in Movers : mv[m].pc = "idle"
    /\ sw.pc = "idle"
    /\ th.pc = "idle"
    /\ DOWNLOADS_FOLDER_PATH \in dirs
    /\ dirs' = dirs \ {DOWNLOADS_FOLDER_PATH}
    /\ fs' = [p \in DOMAIN fs \ InDownloads(fs) |-> fs[p]]
    /\ env' = [env EXCEPT !.used = @ + 1]
    /\ UNCHANGED << meme_enabled, mv, sw, observer, th, queue, hist, tray, cfg >>

\* the downloader writes to a file that a call is polling: its size changes
Resize ==
    /\ ~ env.finished
    /\ \E m \in Movers, size \in 1..MaxSize :
         /\ mv[m].pc = "poll"
         /\ mv[m].path \in DOMAIN fs
         /\ size # fs[mv[m].path].size
         /\ fs' = [fs EXCEPT ![mv[m].path].size = size]
    /\ UNCHANGED << dirs, meme_enabled, mv, sw, observer, th, queue, env, hist, tray, cfg >>

\* the downloader closes the file: its size no longer changes
Finish ==
    /\ ~ env.finished
    /\ \E m \in Movers : mv[m].pc = "poll"
    /\ env' = [env EXCEPT !.finished = TRUE]
    /\ UNCHANGED << fs, dirs, meme_enabled, mv, sw, observer, th, queue, hist, tray, cfg >>

\* another program creates, in a destination folder, the file that a
\* sort_file in its stability wait has chosen as its destination
ForeignWrite ==
    /\ env.used < MaxEnv
    /\ \E m \in Movers :
         /\ mv[m].pc \in {"poll", "move"}
         /\ mv[m].destination_path \notin DOMAIN fs
         /\ fs' = [p \in DOMAIN fs \cup {mv[m].destination_path} |->
                     IF p = mv[m].destination_path
                     THEN [id |-> 0, size |-> 1, origin |-> p]
                     ELSE fs[p]]
    /\ env' = [env EXCEPT !.used = @ + 1]
    /\ UNCHANGED << dirs, meme_enabled, mv, sw, observer, th, queue, hist, tray, cfg >>

(***************************************************************************)
(* Direct calls of the public functions, one at a time, as the tests make  *)
(* them (tests/test_sorter.py).                                            *)
(***************************************************************************)
CallPaths == { << DOWNLOADS_FOLDER_PATH, n >> : n \in Names }

\* no call is in progress, and the process has not exited
Quiet ==
    /\ \A m \in Movers : mv[m].pc = "idle"
    /\ sw.pc = "idle"
    /\ th.pc = "idle"
    /\ ~ tray.exited

\* the planned_dest arguments of the direct calls
PlannedDests == {"None", PATH_TO_FOLDERS["Docs"]}

\* sort_file(path, notify, planned_dest)
DirectSortFile ==
    /\ Quiet
    /\ \E path \in CallPaths, notify \in BOOLEAN, planned_dest \in PlannedDests :
         mv' = [mv EXCEPT !["direct"] = SortFileCall(path, notify, planned_dest)]
    /\ hist' = NoHist
    /\ UNCHANGED << fs, dirs, meme_enabled, sw, observer, th, queue, env, tray, cfg >>

\* resolve_destination(path, ask_meme)
DirectResolve ==
    /\ Quiet
    /\ \E path \in CallPaths, ask_meme \in BOOLEAN :
         mv' = [mv EXCEPT !["direct"] = ResolveCall(path, ask_meme)]
    /\ hist' = NoHist
    /\ UNCHANGED << fs, dirs, meme_enabled, sw, observer, th, queue, env, tray, cfg >>

\* sort_files()
DirectSortFiles ==
    /\ Quiet
    /\ sw' = [IdleSweep EXCEPT !.pc = "scan"]
    /\ hist' = [NoHist EXCEPT !.prior = (hist.swept = "clean")]
    /\ UNCHANGED << fs, dirs, meme_enabled, mv, observer, th, queue, env, tray, cfg >>

\* sort_files() of main.py, lines 697-779: it returns at once while
\* pytray_icon is None (lines 715-718)
LegacySortFiles ==
    /\ Quiet
    /\ \E pytray_icon \in {"None", "Icon"} :
         sw' = [IdleSweep EXCEPT
                  !.pc = IF pytray_icon = "None" THEN "done" ELSE "scan",
                  !.legacy = TRUE]
    /\ hist' = NoHist
    /\ UNCHANGED << fs, dirs, meme_enabled, mv, observer, th, queue, env, tray, cfg >>

\* MyEventHandler().on_modified(event)
DirectOnModified ==
    /\ Quiet
    /\ \E e \in { [src_path |-> p, is_directory |-> FALSE] : p \in CallPaths }
                \cup { [src_path |-> << DOWNLOADS_FOLDER_PATH, <<"s">> >>,
                        is_directory |-> TRUE] } :
         th' = [pc |-> "sleep", event |-> e]
    /\ hist' = NoHist
    /\ UNCHANGED << fs, dirs, meme_enabled, mv, sw, observer, queue, env, tray, cfg >>

\* is_file_fully_downloaded(file_path, wait_time, check_interval), lines
\* 97-98 included; a new download is under way
DirectDownloaded ==
    /\ Quiet
    /\ \E path \in CallPaths, wait_time \in 1..MaxWait,
          check_interval \in 1..MaxInterval :
         mv' = [mv EXCEPT !["direct"] =
                  [Idle EXCEPT
                     !.fn = "is_file_fully_downloaded", !.pc = "poll",
                     !.path = path, !.wait_time = wait_time,
                     !.check_interval = check_interval,
                     !.prev_size = -1, !.stable_count = 0]]
    /\ hist' = NoHist
    /\ env' = [env EXCEPT !.finished = FALSE]
    /\ UNCHANGED << fs, dirs, meme_enabled, sw, observer, th, queue, tray, cfg >>

\* check_name(dest_folder, entry_name)
DirectCheckName ==
    /\ Quiet
    /\ \E dest_folder \in DestFolders, entry_name \in EntryNames :
         mv' = [mv EXCEPT !["direct"] =
                  [Idle EXCEPT
                     !.fn = "check_name", !.pc = "ret",
                     !.path = Join(DOWNLOADS_FOLDER_PATH, entry_name),
                     !.dest_folder = dest_folder,
                     !.ret = check_name(fs, dest_folder, entry_name)]]
    /\ hist' = NoHist
    /\ UNCHANGED << fs, dirs, meme_enabled, sw, observer, th, queue, env, tray, cfg >>

\* the caller has the value, or the exception, of the call it made
DirectReturn ==
    /\ \/ mv["direct"].pc \in {"ret", "raised"}
       \/ sw.pc = "done"
       \/ th.pc = "crashed"
    /\ mv' = [mv EXCEPT !["direct"] = Idle]
    /\ sw' = IdleSweep
    /\ th' = [pc |-> "idle", event |-> NoEvent]
    /\ hist' = [hist EXCEPT
         !.swept = IF sw.pc # "done" THEN "no"
                   ELSE IF sw.aborted THEN "failed" ELSE "clean"]
    /\ UNCHANGED << fs, dirs, meme_enabled, observer, queue, env, tray, cfg >>

(***************************************************************************)
(* Configuration loading (autofile/config.py).                             *)
(***************************************************************************)
\* the characters of raw extension strings: whitespace, the dot, a letter
Space == " "

RawChars == {Space, Dot, "T"}

RawStrings == UNION { [1..n -> RawChars] : n \in 0..MaxRawLen }

RawLists == UNION { [1..n -> RawStrings] : n \in 0..MaxItems }

\* str.strip
RECURSIVE LStrip(_)
LStrip(s) == IF s # << >> /\ Head(s) = Space THEN LStrip(Tail(s)) ELSE s

RECURSIVE RStrip(_)
RStrip(s) ==
    IF s # << >> /\ s[Len(s)] = Space
    THEN RStrip(SubSeq(s, 1, Len(s) - 1))
    ELSE s

Strip(s) == RStrip(LStrip(s))

\* _normalize_extensions, lines 90-94, for one element of items: the value
\* of ext that is appended; << >> when the element is passed over (line 92)
DotAlways(raw) ==
    LET ext == Lower(Strip(raw)) IN
    IF ext = << >> THEN << >> ELSE << Dot >> \o ext

NormalizedExt(raw) ==
    LET ext == Lower(Strip(raw)) IN
    IF ext = << >> THEN << >>
    ELSE IF Head(ext) # Dot THEN << Dot >> \o ext
    ELSE ext

\* _normalize_extensions(items), lines 88-96
RECURSIVE _normalize_extensions(_)
_normalize_extensions(items) ==
    IF items = << >> THEN << >>
    ELSE IF NormalizedExt(Head(items)) = << >>
         THEN _normalize_extensions(Tail(items))
         ELSE << NormalizedExt(Head(items)) >>
                 \o _normalize_extensions(Tail(items))

\* a scaled-down DEFAULT_FILE_TYPES and DEFAULT_SKIP_EXTENSIONS
DEFAULT_FILE_TYPES ==
    [c \in {"Docs", "Media"} |->
        IF c = "Docs" THEN << << Dot, "t" >>, << Dot, "p" >> >>
        ELSE << << Dot, "j" >> >>]

DEFAULT_SKIP_EXTENSIONS == << << Dot, "p" >> >>

\* the elements of a list, as set(...) collects them
Range(q) == { q[i] : i \in 1..Len(q) }

\* the values a key of the configuration file may have: absent, a list of
\* strings, a number, or a string (whose iteration yields its characters)
ConfigItems == { << "T" >>, << Space >> }

ConfigLists == UNION { [1..n -> ConfigItems] : n \in 0..MaxItems }

ConfigValues ==
    { [type |-> "list", items |-> l] : l \in ConfigLists }
        \cup { [type |-> "absent", items |-> << >>],
               [type |-> "number", items |-> << >>],
               [type |-> "string", items |-> << << "T" >>, << "j" >> >>] }

\* the keys of the file: the two reserved ones and a category
ConfigKeys == {"SkipExtensions", "_meta", "Pics"}

NoData == [k \in ConfigKeys |-> [type |-> "absent", items |-> << >>]]

\* the configuration files: none, one that json.load rejects, one whose root
\* is a JSON array, and the JSON objects over ConfigKeys
ConfigFiles ==
    { [kind |-> k, data |-> NoData] : k \in {"missing", "malformed", "array"} }
        \cup { [kind |-> "object", data |-> d] : d \in [ConfigKeys -> ConfigValues] }

\* load_config's return in its except clause, lines 135-141
ConfigDefaults ==
    [categories |-> DEFAULT_FILE_TYPES,
     skip_extensions |-> Range(_normalize_extensions(DEFAULT_SKIP_EXTENSIONS)),
     exc |-> "none", warned |-> TRUE]

\* the try block of load_config, lines 113-133: what it returns, or the
\* exception that ends it
TryLoadConfig(file) ==
    LET raised(e) ==
            [categories |-> << >>, skip_extensions |-> {}, exc |-> e,
             warned |-> FALSE]
        data == file.data
        skip_list ==
            IF data["SkipExtensions"].type = "absent"
            THEN DEFAULT_SKIP_EXTENSIONS
            ELSE data["SkipExtensions"].items
        reserved == {"SkipExtensions", "_meta"}
        keys == { k \in ConfigKeys \ reserved : data[k].type = "list" }
        categories == [k \in keys |-> _normalize_extensions(data[k].items)]
    IN CASE file.kind = "missing"   -> raised("FileNotFoundError")
         [] file.kind = "malformed" -> raised("JSONDecodeError")
         [] file.kind = "array"     -> raised("ValueError")
         [] data["SkipExtensions"].type = "number" -> raised("TypeError")
         [] OTHER ->
              [categories |-> IF keys = {} THEN DEFAULT_FILE_TYPES
                              ELSE categories,
               skip_extensions |-> Range(_normalize_extensions(skip_list)),
               exc |-> "none", warned |-> FALSE]

\* load_config(config_file_path), lines 112-141
LoadUncaught(file) == TryLoadConfig(file)

load_config(file) ==
    IF TryLoadConfig(file).exc # "none" THEN ConfigDefaults
    ELSE TryLoadConfig(file)

NoFile == [kind |-> "missing", data |-> NoData]

NoConfig ==
    [categories |-> << >>, skip_extensions |-> {}, exc |-> "none",
     warned |-> FALSE]

\* a call of _normalize_extensions(items); raw keeps the first argument
NormalizeCall(items) ==
    [fn |-> "_normalize_extensions", pc |-> "call", items |-> items,
     ret |-> << >>, pass |-> 1, raw |-> items, file |-> NoFile,
     config |-> NoConfig]

\* a call of load_config on a file
LoadConfigCall(file) ==
    [fn |-> "load_config", pc |-> "call", items |-> << >>, ret |-> << >>,
     pass |-> 1, raw |-> << >>, file |-> file, config |-> NoConfig]

\* _normalize_extensions returns
Normalize ==
    /\ cfg.fn = "_normalize_extensions"
    /\ cfg.pc = "call"
    /\ cfg' = [cfg EXCEPT !.pc = "ret", !.ret = _normalize_extensions(cfg.items)]
    /\ UNCHANGED << fs, dirs, meme_enabled, mv, sw, observer, th, queue, env, hist, tray >>

\* the caller passes the result to _normalize_extensions once more
NormalizeAgain ==
    /\ cfg.fn = "_normalize_extensions"
    /\ cfg.pc = "ret"
    /\ cfg.pass = 1
    /\ cfg' = [cfg EXCEPT !.pc = "call", !.items = cfg.ret, !.ret = << >>,
                          !.pass = 2]
    /\ UNCHANGED << fs, dirs, meme_enabled, mv, sw, observer, th, queue, env, hist, tray >>

\* load_config returns
LoadConfig ==
    /\ cfg.fn = "load_config"
    /\ cfg.pc = "call"
    /\ cfg' = [cfg EXCEPT !.pc = "ret", !.config = load_config(cfg.file)]
    /\ UNCHANGED << fs, dirs, meme_enabled, mv, sw, observer, th, queue, env, hist, tray >>

(***************************************************************************)
(* Specifications.                                                         *)
(***************************************************************************)
\* the files of the watched directory at the start, numbered from 1
InitialFiles(names) ==
    LET q == CHOOSE q \in Orders(names) : TRUE IN
    [p \in { << DOWNLOADS_FOLDER_PATH, n >> : n \in names } |->
        [id |-> CHOOSE k \in 1..Cardinality(names) : q[k] = p[2],
         size |-> 1, origin |-> p]]

\* the engine at rest: the folders exist (config.py, lines 169-170), no
\* call is in progress, nothing has been shown
InitEngine ==
    /\ dirs = {DOWNLOADS_FOLDER_PATH} \cup DestFolders
    /\ mv = [m \in Movers |-> Idle]
    /\ sw = IdleSweep
    /\ th = [pc |-> "idle", event |-> NoEvent]
    /\ queue = << >>
    /\ hist = NoHist

InitCommon ==
    /\ InitEngine
    /\ observer = "None"
    /\ tray = NoTray
    /\ cfg = NoConfigCall

\* the application after main() has built the tray icon: config.py has
\* created the folders, the watcher is not started yet
Init ==
    /\ InitCommon
    /\ meme_enabled = TRUE
    /\ fs = InitialFiles(InitialNames)
    /\ env = [emitted |-> 0, used |-> 0, finished |-> FALSE,
              next_id |-> Cardinality(InitialNames) + 1]

System ==
    \/ StartWatching
    \/ SweepScan
    \/ SweepFilter
    \/ SweepBegin
    \/ SweepCall
    \/ SweepCallRet
    \/ SweepComplete
    \/ SweepExcept
    \/ Dispatch
    \/ OnModified
    \/ OnModifiedRet
    \/ OnModifiedRaise
    \/ \E m \in Movers : MoverStep(m)
    \/ EmitFile
    \/ EmitDir

Next ==
    \/ System
    \/ \E m \in Movers : SfIOError(m)
    \/ \E m \in Movers : PromptFail(m)
    \/ Arrive
    \/ UserDelete
    \/ ForeignWrite

Spec == Init /\ [][Next]_vars

\* the watcher and the sweep alone with the notifier: nothing else touches
\* the files
SpecRace == Init /\ [][System]_vars

\* the watcher and the sweep with bursts of events: two files, nothing else
\* touches them
InitBurst ==
    /\ InitCommon
    /\ meme_enabled = TRUE
    /\ fs = InitialFiles({nDoc, nMedia})
    /\ env = [emitted |-> 0, used |-> 0, finished |-> FALSE, next_id |-> 3]

NextBurst ==
    \/ StartWatching
    \/ SweepScan
    \/ SweepFilter
    \/ SweepBegin
    \/ SweepCall
    \/ SweepCallRet
    \/ SweepComplete
    \/ SweepExcept
    \/ Dispatch
    \/ OnModified
    \/ OnModifiedRet
    \/ OnModifiedRaise
    \/ \E m \in Movers : MoverStep(m)
    \/ EmitBurst

SpecBurst == InitBurst /\ [][NextBurst]_vars

\* the watcher and the sweep on a watched directory that holds a file and a
\* subdirectory with a file in it
InitNested ==
    /\ dirs = {DOWNLOADS_FOLDER_PATH, SubFolder} \cup DestFolders
    /\ mv = [m \in Movers |-> Idle]
    /\ sw = IdleSweep
    /\ th = [pc |-> "idle", event |-> NoEvent]
    /\ queue = << >>
    /\ hist = NoHist
    /\ observer = "None"
    /\ tray = NoTray
    /\ cfg = NoConfigCall
    /\ meme_enabled = TRUE
    /\ fs = [p \in {Join(DOWNLOADS_FOLDER_PATH, nMedia), Join(SubFolder, nLate)} |->
               [id |-> IF p[1] = SubFolder THEN 2 ELSE 1,
                size |-> 1, origin |-> p]]
    /\ env = [emitted |-> 0, used |-> 0, finished |-> FALSE, next_id |-> 3]

NextNested ==
    \/ StartWatching
    \/ SweepScan
    \/ SweepFilter
    \/ SweepBegin
    \/ SweepCall
    \/ SweepCallRet
    \/ SweepComplete
    \/ SweepExcept
    \/ Dispatch
    \/ OnModified
    \/ OnModifiedRet
    \/ OnModifiedRaise
    \/ \E m \in Movers : MoverStep(m)
    \/ EmitFile
    \/ EmitNested

SpecNested == InitNested /\ [][NextNested]_vars

\* the two public functions called directly on a directory of files
InitCall ==
    /\ InitCommon
    /\ meme_enabled \in BOOLEAN
    /\ fs = InitialFiles(InitialNames \cup {nPlain})
    /\ env = [emitted |-> 0, used |-> 0, finished |-> FALSE,
              next_id |-> Cardinality(InitialNames) + 2]

NextCall ==
    \/ DirectSortFile
    \/ DirectResolve
    \/ DirectReturn
    \/ DirectSortFiles
    \/ DirectOnModified
    \/ SweepScan
    \/ SweepFilter
    \/ SweepBegin
    \/ SweepCall
    \/ SweepCallRet
    \/ SweepComplete
    \/ SweepExcept
    \/ OnModified
    \/ OnModifiedRet
    \/ OnModifiedRaise
    \/ \E m \in Movers : MoverStep(m)
    \/ \E m \in Movers : SfIOError(m)
    \/ \E m \in Movers : PromptFail(m)
    \/ UserDelete
    \/ ForeignWrite
    \/ RemoveDownloads

SpecCall == InitCall /\ [][NextCall]_vars

\* main.py run as the program: its sort_files, sort_file and
\* resolve_destination, until the process exits
NextLegacy ==
    \/ LegacySortFiles
    \/ DirectSortFile
    \/ DirectResolve
    \/ DirectReturn
    \/ SweepScan
    \/ SweepFilter
    \/ SweepBegin
    \/ SweepCall
    \/ SweepCallRet
    \/ SweepComplete
    \/ LegacySweepExcept
    \/ \E m \in Movers : MoverStep(m)
    \/ \E m \in Movers : SfIOError(m)
    \/ UserDelete

SpecLegacy == InitCall /\ [][NextLegacy]_vars

\* the functions of config.py called on raw lists and on configuration files
InitConfig ==
    /\ InitEngine
    /\ observer = "None"
    /\ tray = NoTray
    /\ meme_enabled = TRUE
    /\ fs = InitialFiles({})
    /\ env = [emitted |-> 0, used |-> 0, finished |-> FALSE, next_id |-> 1]
    /\ cfg \in { NormalizeCall(items) : items \in RawLists }
                 \cup { LoadConfigCall(file) : file \in ConfigFiles }

NextConfig ==
    \/ Normalize
    \/ NormalizeAgain
    \/ LoadConfig

SpecConfig == InitConfig /\ [][NextConfig]_vars

\* the tray application after main has built the icon and called
\* run_detached (line 204): the menu is shown, start_watching is about to
\* be called
InitTray ==
    /\ InitEngine
    /\ observer = "None"
    /\ cfg = NoConfigCall
    /\ meme_enabled = TRUE
    /\ fs = InitialFiles(InitialNames)
    /\ env = [emitted |-> 0, used |-> 0, finished |-> FALSE,
              next_id |-> Cardinality(InitialNames) + 1]
    /\ tray = [NoTray EXCEPT !.thread["main"] = [fn |-> "main", pc |-> "205"],
                             !.icon = "running"]

NextTray ==
    \/ MainCall
    \/ \E t \in Threads : SwTest(t)
    \/ \E t \in Threads : SwCreate(t)
    \/ \E t \in Threads : SwSchedule(t)
    \/ \E t \in Threads : SwStart(t)
    \/ \E t \in Threads : SwSweepBegin(t)
    \/ \E t \in Threads : SwSweepEnd(t)
    \/ ClickStart
    \/ ClickStop
    \/ ClickQuit
    \/ StTest
    \/ StStop
    \/ StJoin
    \/ StClear
    \/ UpdateMenu
    \/ \E o \in Observers : ObserverExit(o)
    \/ \E o \in Observers : HandlerBegin(o)
    \/ \E o \in Observers : HandlerEnd(o)

SpecTray == InitTray /\ [][NextTray]_vars

\* the steps of stop_action on the thread of the tray callbacks
StopSteps ==
    \/ StTest
    \/ StStop
    \/ StJoin
    \/ StClear
    \/ UpdateMenu

\* the threads keep running: the callback thread goes on whenever it can, the
\* main thread goes on through start_watching, and the thread of a stopped
\* observer ends once its handler has returned.  Nothing makes a handler
\* return: on_modified waits in meme_yes_no() until the user answers and in
\* is_file_fully_downloaded as long as the size changes, and nothing makes
\* the user click
SpecTrayFair ==
    /\ SpecTray
    /\ WF_vars(StopSteps)
    /\ WF_vars(MainCall)
    /\ \A t \in Threads :
         WF_vars(SwTest(t) \/ SwCreate(t) \/ SwSchedule(t) \/ SwStart(t)
                   \/ SwSweepBegin(t) \/ SwSweepEnd(t))
    /\ \A o \in Observers : WF_vars(ObserverExit(o))

\* check_name called on a Docs folder that holds any of FolderNames
FilesIn(dir, names) ==
    [p \in { Join(dir, n) : n \in names } |->
        [id |-> 0, size |-> 1, origin |-> p]]

InitName ==
    /\ InitCommon
    /\ meme_enabled = TRUE
    /\ \E names \in SUBSET FolderNames :
         fs = FilesIn(PATH_TO_FOLDERS["Docs"], names)
    /\ env = [emitted |-> 0, used |-> 0, finished |-> FALSE, next_id |-> 1]

NextName ==
    \/ DirectCheckName
    \/ DirectReturn

SpecName == InitName /\ [][NextName]_vars

\* is_file_fully_downloaded and sort_file called on files that a downloader
\* may still be writing
NextPoll ==
    \/ DirectDownloaded
    \/ DirectSortFile
    \/ DirectReturn
    \/ MoverStep("direct")
    \/ Resize
    \/ Finish
    \/ UserDelete

\* one download in the watched directory
InitPoll ==
    /\ InitCommon
    /\ meme_enabled = TRUE
    /\ fs = InitialFiles({nMedia})
    /\ env = [emitted |-> 0, used |-> 0, finished |-> FALSE, next_id |-> 2]

SpecPoll == InitPoll /\ [][NextPoll]_vars

\* the thread that runs the loop of is_file_fully_downloaded keeps running
SpecPollFair == SpecPoll /\ WF_vars(SfPoll("direct"))

(***************************************************************************)
(* Claims.                                                                 *)
(***************************************************************************)
\* the lowercased extension of name is in the skip set
SkipListed(name) == Lower(SplitExt(name)[2]) \in SKIP_EXTENSIONS

\* the first category of the table that lists the lowercased extension of
\* name; "none" when no category lists it
CategoryOf(name) ==
    LET ext  == Lower(SplitExt(name)[2])
        hits == { i \in 1..Len(file_types) : ext \in file_types[i].extensions }
    IN IF hits = {} THEN "none"
       ELSE file_types[CHOOSE i \in hits : \A j \in hits : i <= j].category

\* C1: a file whose lowercased extension is in the skip set is never moved:
\* wherever such a file is, it is at the path where it appeared, even though
\* its extension is also listed under Docs; every sort_file called on such a
\* name, with or without planned_dest, stops at its first check and returns
\* None, so it creates no folder and no file; the sweep takes no such file as
\* a candidate.
C1_SkipListedNeverMoved ==
    /\ \A p \in DOMAIN fs :
         SkipListed(Basename(fs[p].origin)) => p = fs[p].origin
    /\ \A m \in Movers :
         (mv[m].fn = "sort_file" /\ SkipListed(Basename(mv[m].path)))
            => /\ mv[m].pc \in {"start", "ret"}
               /\ mv[m].ret = NoPath
    /\ \A k \in 1..Len(sw.candidates) :
         ~ SkipListed(Basename(sw.candidates[k][1]))

\* a sort_file with a planned destination has returned for a skip-listed
\* file that exists
C1_Witness ==
    \E m \in Movers :
       /\ mv[m].fn = "sort_file" /\ mv[m].pc = "ret"
       /\ mv[m].planned_dest # "None"
       /\ SkipListed(Basename(mv[m].path))
       /\ mv[m].path \in DOMAIN fs

\* C2: a move never overwrites a file that exists in a destination folder:
\* in every step, every file of a destination folder is still there with its
\* content.
C2_NoSilentOverwrite ==
    [][\A p \in DOMAIN fs :
          p[1] \in DestFolders => (p \in DOMAIN fs' /\ fs'[p].id = fs[p].id)]_vars

\* C3: a sweep that has begun its work list attempts every candidate: when
\* sort_files has returned, done has reached total.
C3_SweepAttemptsEveryCandidate ==
    (sw.pc = "done" /\ sw.total > 0) => sw.done = sw.total

\* C4: sort_file never raises to its caller.
C4_SortFileNeverRaises ==
    \A m \in Movers : mv[m].fn = "sort_file" => mv[m].pc # "raised"

\* C5: a failure in on_modified never ends the observer thread.
C5_WatcherSurvivesFailure == th.pc # "crashed"

\* C6: when the sweep and the live handler have both been through sort_file
\* for the same source path, exactly one of these calls returned a
\* destination path, and the file that was at the source path is at exactly
\* one path, in a destination folder.
C6_MovedExactlyOnce ==
    \A p \in CallPaths :
       LET rs == { c \in hist.calls : c.path = p } IN
       ((\E c \in rs : c.by = "batch") /\ (\E c \in rs : c.by = "live"))
          => /\ Cardinality({ c \in rs : c.result = "moved" }) = 1
             /\ Cardinality({ q \in DOMAIN fs : fs[q].origin = p }) = 1
             /\ \A q \in DOMAIN fs : fs[q].origin = p => q[1] \in DestFolders

\* the sweep moved a file and the live handler, past its isfile check for the
\* same file, found it gone
C6_Witness ==
    \E p \in CallPaths :
       /\ [by |-> "batch", path |-> p, result |-> "moved"] \in hist.calls
       /\ [by |-> "live", path |-> p, result |-> "FileNotFoundError"]
             \in hist.calls

\* C7: a sort_file whose file has disappeared returns None: no
\* FileNotFoundError leaves it.
C7_VanishedIsSkipped ==
    \A m \in Movers : mv[m].exc # "FileNotFoundError"

\* C8: total is fixed when the work list is built: every progress report
\* carries the length of the work list as its total, no file that arrived
\* after the directory was listed is in the work list or handed to sort_file
\* by the sweep, and when sort_files has returned from a non-empty work list
\* the last progress report shows done = total = the number of candidates.
C8_TotalFixedAtScan ==
    /\ \A k \in 1..Len(hist.progress) :
         hist.progress[k][2] = Len(sw.candidates)
    /\ \A k \in 1..Len(sw.candidates) : sw.candidates[k][1] \notin hist.late
    /\ mv["batch"].pc # "idle" => mv["batch"].path \notin hist.late
    /\ sw.pc \in {"loop", "call"} => sw.total = Len(sw.candidates)
    /\ (sw.pc = "done" /\ sw.total > 0) =>
         /\ sw.total = Len(sw.candidates)
         /\ hist.progress[Len(hist.progress)] = << sw.total, sw.total >>

\* C9: a sweep never calls meme_yes_no, whatever meme_enabled is, and every
\* file of category Media that it moves goes to the Media folder.
C9_BatchNeverPrompts ==
    /\ "batch" \notin hist.prompts
    /\ mv["batch"].pc # "prompt"
    /\ \A k \in 1..Len(sw.candidates) :
         CategoryOf(Basename(sw.candidates[k][1])) = "Media"
            => sw.candidates[k][2] = PATH_TO_FOLDERS["Media"]
    /\ (mv["batch"].ret # NoPath
          /\ CategoryOf(Basename(mv["batch"].path)) = "Media")
         => mv["batch"].ret[1] = PATH_TO_FOLDERS["Media"]

\* with the meme feature on, the sweep has moved a Media file
C9_Witness ==
    /\ meme_enabled
    /\ mv["batch"].pc = "ret" /\ mv["batch"].ret # NoPath
    /\ CategoryOf(Basename(mv["batch"].path)) = "Media"

\* C10: resolve_destination(path, ask_meme=True) with the meme feature on, for
\* a regular file that is not skip-listed: a Media file goes to Memes when the
\* prompt answered yes and to Media when it answered no; a file of another
\* category goes to that category's folder.
C10_MemePromptDecides ==
    \A m \in Movers :
       LET r == mv[m]
           c == CategoryOf(Basename(r.path))
       IN (/\ r.fn = "resolve_destination" /\ r.pc = "ret"
           /\ r.ask_meme /\ meme_enabled
           /\ r.path \in DOMAIN fs
           /\ ~ SkipListed(Basename(r.path))
           /\ c # "none")
          => IF c = "Media"
             THEN \/ r.answer = "yes" /\ r.dest_folder = PATH_TO_FOLDERS["Memes"]
                  \/ r.answer = "no" /\ r.dest_folder = PATH_TO_FOLDERS["Media"]
             ELSE r.dest_folder = PATH_TO_FOLDERS[c]

\* the prompt answered yes for a Media file
C10_Witness ==
    \E m \in Movers :
       /\ mv[m].fn = "resolve_destination" /\ mv[m].pc = "ret"
       /\ mv[m].ask_meme /\ mv[m].answer = "yes"
       /\ mv[m].path \in DOMAIN fs
       /\ CategoryOf(Basename(mv[m].path)) = "Media"

C12_CheckNameFree ==
    \A m \in Movers :
       (mv[m].fn = "check_name" /\ mv[m].pc = "ret")
          => LET plain == << mv[m].dest_folder, Basename(mv[m].path) >> IN
             /\ mv[m].ret \notin DOMAIN fs
             /\ mv[m].ret[1] = mv[m].dest_folder
             /\ plain \notin DOMAIN fs => mv[m].ret = plain

\* check_name has returned for a name that exists in the folder together with
\* its first numbered variant
C12_Witness ==
    \E m \in Movers :
       /\ mv[m].fn = "check_name" /\ mv[m].pc = "ret"
       /\ << mv[m].dest_folder, nFile >> \in DOMAIN fs
       /\ << mv[m].dest_folder, nFile1 >> \in DOMAIN fs
       /\ Basename(mv[m].path) = nFile

\* C13: when dest_folder/entry_name exists, check_name returns stem_(n)ext for
\* the smallest n >= 1 whose name is unused: with f.t and f_(1).t present and
\* f_(2).t absent it returns f_(2).t, with f.t present and f_(1).t absent it
\* returns f_(1).t.
C13_SmallestUnusedNumber ==
    \A m \in Movers :
       LET d == mv[m].dest_folder
           e == Basename(mv[m].path)
       IN (mv[m].fn = "check_name" /\ mv[m].pc = "ret" /\ << d, e >> \in DOMAIN fs)
          => /\ \E n \in 1..(Cardinality(DOMAIN fs) + 1) :
                  /\ mv[m].ret = << d, Numbered(e, n) >>
                  /\ \A k \in 1..(n-1) : << d, Numbered(e, k) >> \in DOMAIN fs
             /\ (e = nFile /\ << d, nFile1 >> \notin DOMAIN fs)
                   => mv[m].ret = << d, nFile1 >>
             /\ (e = nFile /\ << d, nFile1 >> \in DOMAIN fs
                            /\ << d, nFile2 >> \notin DOMAIN fs)
                   => mv[m].ret = << d, nFile2 >>

\* f.t was resolved in a folder that holds f.t and f_(1).t but not f_(2).t
C13_Witness ==
    \E m \in Movers :
       /\ mv[m].fn = "check_name" /\ mv[m].pc = "ret"
       /\ Basename(mv[m].path) = nFile
       /\ << mv[m].dest_folder, nFile >> \in DOMAIN fs
       /\ << mv[m].dest_folder, nFile1 >> \in DOMAIN fs
       /\ << mv[m].dest_folder, nFile2 >> \notin DOMAIN fs
       /\ mv[m].ret = << mv[m].dest_folder, nFile2 >>

\* C14: only the final suffix is the extension: a colliding name without a
\* dot gets _(1) appended and no dot, a colliding name with two dots gets
\* _(1) before its last dot.
C14_FinalSuffixOnly ==
    \A m \in Movers :
       LET d == mv[m].dest_folder
           e == Basename(mv[m].path)
       IN (mv[m].fn = "check_name" /\ mv[m].pc = "ret" /\ << d, e >> \in DOMAIN fs)
          => /\ (e = nReport /\ << d, nReport1 >> \notin DOMAIN fs)
                   => mv[m].ret = << d, <<"r", "_", "(", "1", ")">> >>
             /\ (e = nArchive /\ << d, nArchive1 >> \notin DOMAIN fs)
                   => mv[m].ret =
                        << d, <<"a", Dot, "b", "_", "(", "1", ")", Dot, "g">> >>
             /\ (e = nReport /\ << d, nReport1 >> \in DOMAIN fs)
                   => mv[m].ret = << d, <<"r", "_", "(", "2", ")">> >>

\* a name with two dots was resolved in a folder that holds it
C14_Witness ==
    \E m \in Movers :
       /\ mv[m].fn = "check_name" /\ mv[m].pc = "ret"
       /\ Basename(mv[m].path) = nArchive
       /\ << mv[m].dest_folder, nArchive >> \in DOMAIN fs
       /\ << mv[m].dest_folder, nArchive1 >> \notin DOMAIN fs

\* the number of pairs of consecutive polls, counted back from the last
\* poll, that read equal sizes
TrailingEqualPairs(q) ==
    Cardinality({ k \in 1..(Len(q) - 1) :
                    \A j \in (Len(q) - k)..Len(q) : q[j] = q[Len(q)] })

\* C15: during and after the stability wait the streak is check_interval
\* times the number of trailing polls that read an unchanged size, so it is
\* zero after a poll that read a changed size; is_file_fully_downloaded has
\* returned True only with a streak of at least wait_time and with equal
\* sizes at its last two polls.
C15_StreakResetsOnChange ==
    \A m \in Movers :
       LET r == mv[m] IN
       /\ (r.pc \in {"poll", "move"} \/ r.downloaded)
             => r.stable_count = r.check_interval * TrailingEqualPairs(r.polls)
       /\ r.pc = "move" => r.downloaded
       /\ r.downloaded
             => /\ r.stable_count >= r.wait_time
                /\ Len(r.polls) >= 2
                /\ r.polls[Len(r.polls)] = r.polls[Len(r.polls) - 1]

\* is_file_fully_downloaded(path, 2, 1) has returned True after the size
\* changed during the wait
C15_Witness ==
    \E m \in Movers :
       /\ mv[m].fn = "is_file_fully_downloaded" /\ mv[m].downloaded
       /\ mv[m].wait_time = 2 /\ mv[m].check_interval = 1
       /\ Len(mv[m].polls) >= 4
       /\ mv[m].polls[Len(mv[m].polls) - 2] # mv[m].polls[Len(mv[m].polls) - 3]

\* C16: the stability wait is not bounded: as long as every poll has read a
\* size different from the poll before it, is_file_fully_downloaded has not
\* returned and the calling sort_file has not moved the file; once the
\* downloader has finished, a wait on a file that stays present ends with
\* True.
C16_WaitsWhileSizeChanges ==
    /\ [](\A m \in Movers :
            (mv[m].pc # "idle" /\ mv[m].all_differ
               /\ mv[m].fn \in {"sort_file", "is_file_fully_downloaded"})
              => /\ ~ mv[m].downloaded
                 /\ mv[m].pc \notin {"move"}
                 /\ mv[m].ret = NoPath)
    /\ ((env.finished /\ mv["direct"].pc = "poll")
          ~> (mv["direct"].downloaded \/ mv["direct"].path \notin DOMAIN fs))

\* a wait has made MaxWait + 1 polls, each with a size different from the one
\* before, and is still polling
C16_Witness ==
    /\ mv["direct"].pc = "poll"
    /\ mv["direct"].all_differ
    /\ Len(mv["direct"].polls) = MaxWait + 1
    /\ mv["direct"].path \in DOMAIN fs

\* C17: a failure on one candidate does not suppress the summary: when
\* sort_files has returned and one of its candidates was moved, the summary
\* notification has been shown.
C17_SummaryDespiteFailure ==
    (sw.pc = "done" /\ Len(sw.moved_files) > 0) => hist.summaries >= 1

\* C18: a sweep shows no per-file notification (each of its sort_file calls
\* has notify = False) and at most one summary, which comes after
\* progress_complete and only when the sweep moved a file.
C18_OneSummaryNoPerFile ==
    /\ "batch" \notin hist.notified
    /\ mv["batch"].pc # "idle" => ~ mv["batch"].notify
    /\ hist.summaries <= 1
    /\ hist.ending \in { << >>, << "progress_complete" >>,
                         << "progress_complete", "show_notification" >> }
    /\ hist.summaries = 1
         => /\ hist.ending = << "progress_complete", "show_notification" >>
            /\ \E c \in hist.calls : c.by = "batch" /\ c.result = "moved"
    /\ (hist.complete = 1 /\ hist.summaries = 0)
         => \A c \in hist.calls : c.by = "batch" => c.result # "moved"

\* a sweep over two candidates moved both and showed its summary
C18_Witness ==
    /\ sw.pc = "done" /\ sw.total = 2 /\ Len(sw.moved_files) = 2
    /\ hist.summaries = 1

\* C19: when the prompt fails or is closed without an answer,
\* resolve_destination returns the Media folder: no call in which the prompt
\* was shown ends with an exception, and a call whose prompt did not answer
\* yes resolves to Media.
C19_PromptFailureDefaults ==
    \A m \in Movers :
       m \in hist.prompts
          => /\ mv[m].exc # "TclError"
             /\ (mv[m].pc = "ret" /\ mv[m].fn = "resolve_destination"
                   /\ mv[m].answer # "yes")
                  => mv[m].dest_folder = PATH_TO_FOLDERS["Media"]

\* C20: a live event for a path that is not a regular file when the handler
\* runs is a no-op: a directory event makes no call of sort_file, and a call
\* of sort_file that found no regular file at the path has returned None
\* without a prompt, a makedirs, a destination chosen for a move, a
\* notification or an exception.
C20_MissingFileEventNoOp ==
    th.pc = "call"
       => /\ ~ th.event.is_directory
          /\ (mv["live"].pc # "start" /\ ~ mv["live"].was_file)
               => /\ mv["live"].pc = "ret"
                  /\ mv["live"].ret = NoPath
                  /\ mv["live"].exc = "none"
                  /\ "live" \notin hist.prompts
                  /\ "live" \notin hist.made
                  /\ "live" \notin hist.notified
                  /\ mv["live"].destination_path = NoPath

\* the handler's sort_file has returned for a Media file that was deleted
\* before the handler ran
C20_Witness ==
    /\ th.pc = "call" /\ mv["live"].pc = "ret"
    /\ ~ mv["live"].was_file
    /\ mv["live"].path \notin DOMAIN fs
    /\ CategoryOf(Basename(mv["live"].path)) = "Media"

\* C21: a regular file whose extension is in no category and not in the skip
\* set is left where it is by a sweep and by sort_file called without
\* planned_dest: such a call never gets past resolve_destination, returns
\* None, makes no folder and chooses no destination, the file is still at
\* its path when the call has returned, and such a file is never among the
\* sweep's candidates.
C21_UnmatchedLeftInPlace ==
    /\ \A m \in Movers :
         (/\ mv[m].fn = "sort_file"
          /\ mv[m].planned_dest = "None"
          /\ CategoryOf(Basename(mv[m].path)) = "none"
          /\ ~ SkipListed(Basename(mv[m].path)))
            => /\ mv[m].pc \in {"start", "resolve", "ret"}
               /\ mv[m].ret = NoPath
               /\ mv[m].exc = "none"
               /\ mv[m].destination_path = NoPath
               /\ m \notin hist.made
               /\ m \notin hist.notified
    /\ \A k \in 1..Len(sw.candidates) :
         CategoryOf(Basename(sw.candidates[k][1])) # "none"
    /\ \A c \in hist.calls :
         c.by = "batch" => CategoryOf(Basename(c.path)) # "none"

\* sort_file(path) has returned None for a file of unknown extension that is
\* still at its path
C21_Witness ==
    /\ mv["direct"].fn = "sort_file" /\ mv["direct"].pc = "ret"
    /\ mv["direct"].planned_dest = "None"
    /\ Basename(mv["direct"].path) = nPlain
    /\ mv["direct"].was_file
    /\ mv["direct"].path \in DOMAIN fs
    /\ fs[mv["direct"].path].origin = mv["direct"].path
    /\ mv["direct"].ret = NoPath

\* C22: when the watched directory does not exist as sort_files starts, the
\* sweep does nothing: it goes from its start to its return with no progress
\* call, no sort_file call, no notification and no exception.
C22_MissingSourceNoOp ==
    (sw.pc # "idle" /\ DOWNLOADS_FOLDER_PATH \notin dirs)
       => /\ sw.pc \in {"scan", "done"}
          /\ ~ sw.aborted
          /\ sw.total = 0 /\ sw.candidates = << >> /\ sw.moved_files = << >>
          /\ mv["batch"].pc = "idle"
          /\ hist.progress = << >>
          /\ hist.complete = 0
          /\ hist.summaries = 0
          /\ hist.ending = << >>
          /\ hist.calls = {}
          /\ hist.notified = {}
          /\ hist.prompts = {}

\* sort_files has returned and the watched directory does not exist
C22_Witness ==
    /\ sw.pc = "done"
    /\ DOWNLOADS_FOLDER_PATH \notin dirs
    /\ ~ sw.aborted
    /\ hist.progress = << >>

\* C23: once stop_watching has returned, and until a start_watching begins,
\* observer is None, no handler of a live event is executing and no observer
\* is running that could start one.
C23_StoppedMeansQuiet ==
    tray.stopped_clean
       => /\ observer = "None"
          /\ \A o \in Observers :
               /\ tray.handler[o] = "idle"
               /\ tray.obs[o] # "running"

\* C27: at most one observer is running, and a running observer is the one
\* that the global observer holds, so that stop_watching can stop it.
C27_OneObserver ==
    /\ Cardinality({ o \in Observers : tray.obs[o] = "running" }) <= 1
    /\ \A o \in Observers : tray.obs[o] = "running" => observer = o

\* C28: sort_files never runs on the main thread and on the thread of the
\* tray callbacks at the same time.
C28_OneSweep ==
    ~ (tray.thread["main"].pc = "sort_files"
         /\ tray.thread["tray"].pc = "sort_files")

\* C29: when the startup start_watching has returned and no callback is
\* running, the menu offers Start exactly when observer is None and Stop
\* exactly when it is not.
C29_MenuAgrees ==
    (/\ ~ tray.exited
     /\ tray.icon = "running"
     /\ tray.thread["main"].pc = "done"
     /\ tray.thread["tray"].pc = "idle")
       => /\ tray.menu.start = (observer = "None")
          /\ tray.menu.stop = (observer # "None")

\* C24: no operation of the engine ends the process: sys.exit is never
\* called, whatever fails inside sort_files or sort_file.
C24_NoProcessExit ==
    ~ tray.exited

\* C25: _normalize_extensions is idempotent, and every element of its result
\* is non-empty, starts with a dot and is in lower case.
C25_NormalizeIdempotent ==
    (cfg.fn = "_normalize_extensions" /\ cfg.pc = "ret")
       => /\ \A i \in 1..Len(cfg.ret) :
               /\ cfg.ret[i] # << >>
               /\ Head(cfg.ret[i]) = Dot
               /\ Lower(cfg.ret[i]) = cfg.ret[i]
          /\ cfg.pass = 2 => cfg.ret = cfg.items

\* the list [" T", ".T"] has been normalized twice
C25_Witness ==
    /\ cfg.fn = "_normalize_extensions" /\ cfg.pc = "ret" /\ cfg.pass = 2
    /\ cfg.raw = << << Space, "T" >>, << Dot, "T" >> >>
    /\ cfg.ret = << << Dot, "t" >>, << Dot, "t" >> >>

\* C26: load_config returns without an exception and with at least one
\* category: for a missing or malformed file the default categories and the
\* default skip list, and for a JSON object with a skip list and no list
\* under a category key the default categories and the object's skip list.
C26_LoadConfigTotal ==
    (cfg.fn = "load_config" /\ cfg.pc = "ret")
       => /\ cfg.config.exc = "none"
          /\ DOMAIN cfg.config.categories # {}
          /\ cfg.file.kind \in {"missing", "malformed"}
               => /\ cfg.config.categories = DEFAULT_FILE_TYPES
                  /\ cfg.config.skip_extensions
                        = Range(_normalize_extensions(DEFAULT_SKIP_EXTENSIONS))
          /\ (/\ cfg.file.kind = "object"
              /\ cfg.file.data["SkipExtensions"].type = "list"
              /\ cfg.file.data["Pics"].type # "list")
               => /\ cfg.config.categories = DEFAULT_FILE_TYPES
                  /\ cfg.config.skip_extensions
                        = Range(_normalize_extensions(
                                    cfg.file.data["SkipExtensions"].items))

\* load_config has returned for {"SkipExtensions": ["T"]}
C26_Witness ==
    /\ cfg.fn = "load_config" /\ cfg.pc = "ret"
    /\ cfg.file.kind = "object"
    /\ cfg.file.data["SkipExtensions"] = [type |-> "list", items |-> << << "T" >> >>]
    /\ cfg.file.data["Pics"].type = "absent"
    /\ cfg.config.categories = DEFAULT_FILE_TYPES
    /\ cfg.config.skip_extensions = { << Dot, "t" >> }

\* C30: a sweep with at least one candidate reports progress_begin, then
\* progress_update with done = 0, 1, ..., total, one after each candidate,
\* then exactly one progress_complete: the updates seen so far count up from
\* 0 by one, done is at most total, the moved names are at most done, and a
\* sweep that has returned has reported done = total and has called
\* progress_complete once.
C30_ProgressSequence ==
    /\ sw.pc \in {"loop", "call", "done"}
         => /\ \A k \in 1..Len(hist.progress) :
                 hist.progress[k] = << k - 1, sw.total >>
            /\ Len(hist.progress) = IF sw.total = 0 THEN 0 ELSE sw.done + 1
    /\ sw.done <= sw.total
    /\ Len(sw.moved_files) <= sw.done
    /\ hist.complete <= 1
    /\ (sw.pc = "done" /\ sw.total >= 1)
         => /\ hist.complete = 1
            /\ sw.done = sw.total
            /\ Len(hist.progress) = sw.total + 1

\* C31: meme_yes_no is called only for a file whose first matching category
\* is Media, with meme_enabled on and ask_meme true; a call of
\* resolve_destination or sort_file calls it at most once, a sort_file with
\* planned_dest never, and the sweep's own resolve_destination never.
C31_PromptOnlyWhenAsked ==
    /\ \A m \in Movers :
         /\ mv[m].prompts <= 1
         /\ mv[m].pc = "prompt" => mv[m].prompts = 1
         /\ mv[m].prompts = 1
              => /\ CategoryOf(Basename(mv[m].path)) = "Media"
                 /\ meme_enabled
                 /\ mv[m].ask_meme
                 /\ mv[m].planned_dest = "None"
         /\ mv[m].answer # "none" => mv[m].prompts = 1
    /\ "batch" \notin hist.prompts

\* a sort_file without planned_dest has returned after one prompt
C31_Witness ==
    /\ mv["direct"].fn = "sort_file" /\ mv["direct"].pc = "ret"
    /\ mv["direct"].prompts = 1
    /\ mv["direct"].answer = "yes"
    /\ mv["direct"].ret # NoPath

\* C32: on_modified calls sort_file for no directory event and for no name
\* with a skip-listed extension; for any other event it calls
\* sort_file(src) once, without planned_dest, and after the sleep: a live
\* sort_file is in progress only while the handler is at its call, for the
\* path of the handler's event, and it begins in the step in which the
\* handler leaves its sleep; the handler ends when that call returns.
C32_HandlerCallsOnce ==
    /\ [](/\ th.pc = "call"
             => /\ ~ th.event.is_directory
                /\ ~ SkipListed(Basename(th.event.src_path))
                /\ mv["live"].fn = "sort_file"
                /\ mv["live"].path = th.event.src_path
                /\ mv["live"].planned_dest = "None"
                /\ mv["live"].notify
          /\ th.pc # "call" => mv["live"].pc = "idle")
    /\ [][/\ (mv["live"].pc = "idle" /\ mv["live"]' # mv["live"])
             => /\ th.pc = "sleep" /\ th'.pc = "call"
                /\ mv["live"]'.pc = "start"
          /\ (th.pc = "sleep" /\ ~ th.event.is_directory
                /\ ~ SkipListed(Basename(th.event.src_path)))
             => (th' = th \/ th'.pc = "call")
          /\ th.pc = "call" => th'.pc \in {"call", "idle", "crashed"}]_vars

\* the handler's sort_file has moved the file of its event
C32_Witness ==
    /\ th.pc = "call"
    /\ mv["live"].pc = "ret"
    /\ mv["live"].ret # NoPath
    /\ mv["live"].path = th.event.src_path

\* C33: a burst of modification events for one write of one file moves the
\* file at most once and shows at most one prompt for it: every later event
\* of the burst finds no regular file at the path and its sort_file returns
\* None without a prompt.
C33_BurstMovesOnce ==
    /\ \A p \in DOMAIN hist.moves : hist.moves[p] <= 1
    /\ \A p \in DOMAIN hist.asked : hist.asked[p] <= 1
    /\ (th.pc = "call" /\ mv["live"].pc # "start"
          /\ CountOf(hist.moves, mv["live"].path) = 1
          /\ ~ mv["live"].was_file)
         => /\ mv["live"].pc = "ret"
            /\ mv["live"].ret = NoPath
            /\ mv["live"].prompts = 0

\* the second event of a burst has ended as a no-op after the first one led
\* to a prompt and a move
C33_Witness ==
    /\ th.pc = "call" /\ mv["live"].pc = "ret"
    /\ ~ mv["live"].was_file
    /\ mv["live"].ret = NoPath
    /\ CountOf(hist.moves, mv["live"].path) = 1
    /\ CountOf(hist.asked, mv["live"].path) = 1
    /\ queue = << >>
    /\ \E c \in hist.calls : c.by = "live" /\ c.result = "moved"

\* a call whose resolve_destination has returned a folder
Resolved(m) ==
    /\ mv[m].fn \in {"sort_file", "resolve_destination"}
    /\ mv[m].planned_dest = "None"
    /\ mv[m].pc \in {"mkdir", "poll", "move", "ret"}
    /\ mv[m].dest_folder # "None"

\* C34 as stated: resolve_destination returns the folder of the first
\* category, in the order of file_types, that lists the lowercased extension
\* of the file, whatever else happens during the call.
C34_AlwaysFirstCategoryFolder ==
    \A m \in Movers :
       Resolved(m)
         => mv[m].dest_folder = PATH_TO_FOLDERS[CategoryOf(Basename(mv[m].path))]

\* C34: resolve_destination picks the first category, in the order of
\* file_types, that lists the lowercased extension of the file; when it shows
\* no prompt it returns the folder of that category, so an extension listed
\* under two categories goes to the earlier one; when it shows the prompt the
\* first category is Media and the answer decides between Memes and Media.
C34_FirstMatchWins ==
    \A m \in Movers :
       Resolved(m)
         => /\ CategoryOf(Basename(mv[m].path)) # "none"
            /\ mv[m].prompts = 0
                 => mv[m].dest_folder =
                        PATH_TO_FOLDERS[CategoryOf(Basename(mv[m].path))]
            /\ mv[m].prompts > 0
                 => /\ CategoryOf(Basename(mv[m].path)) = "Media"
                    /\ mv[m].prompts = 1
                    /\ mv[m].dest_folder = MemeChoice(mv[m].answer = "yes")
            /\ Lower(SplitExt(Basename(mv[m].path))[2]) = <<Dot, "t">>
                 => /\ mv[m].dest_folder = PATH_TO_FOLDERS["Docs"]
                    /\ mv[m].prompts = 0

\* resolve_destination(path, ask_meme=True) has returned Docs for a file whose
\* extension is listed under Docs and under Media
C34_Witness ==
    /\ mv["direct"].fn = "resolve_destination" /\ mv["direct"].pc = "ret"
    /\ mv["direct"].ask_meme /\ meme_enabled
    /\ Basename(mv["direct"].path) = nDoc
    /\ \E i, j \in 1..Len(file_types) :
         /\ i < j
         /\ <<Dot, "t">> \in file_types[i].extensions
         /\ <<Dot, "t">> \in file_types[j].extensions
    /\ mv["direct"].dest_folder = PATH_TO_FOLDERS["Docs"]

\* the least n with n * i >= w
CeilDiv(w, i) == (w + i - 1) \div i

\* C35: while the size it reads never changes, is_file_fully_downloaded with
\* wait_time W > 0 and check_interval I > 0 reads the size ceil(W / I) + 1
\* times, sleeps I after each read, and then returns True: it has not returned
\* before that many reads and it has slept (ceil(W / I) + 1) * I in total
\* when it returns.
C35_PollCount ==
    \A m \in Movers :
       (/\ mv[m].fn \in {"sort_file", "is_file_fully_downloaded"}
        /\ mv[m].reads > 0
        /\ mv[m].same_size
        /\ mv[m].exc = "none")
         => LET n == CeilDiv(mv[m].wait_time, mv[m].check_interval) + 1 IN
            /\ mv[m].slept = mv[m].reads * mv[m].check_interval
            /\ mv[m].reads <= n
            /\ mv[m].downloaded <=> mv[m].reads = n
            /\ mv[m].pc = "poll" <=> mv[m].reads < n
            /\ mv[m].downloaded => mv[m].slept = n * mv[m].check_interval

\* is_file_fully_downloaded(path, 3, 2) has returned True after three reads
\* of one size and six seconds of sleep
C35_Witness ==
    /\ mv["direct"].fn = "is_file_fully_downloaded" /\ mv["direct"].pc = "ret"
    /\ mv["direct"].wait_time = 3 /\ mv["direct"].check_interval = 2
    /\ mv["direct"].same_size /\ mv["direct"].downloaded
    /\ mv["direct"].reads = 3 /\ mv["direct"].slept = 6

\* the files of the watched directory that a sweep would take as candidates
SweepCandidates ==
    { p \in InDownloads(fs) :
        /\ ~ should_skip_by_extension(Basename(p))
        /\ ResolveNoPrompt(fs, p) # "None" }

\* C36: a sort_files() called right after a sort_files() that returned
\* without an exception, no file having arrived in between, finds no
\* candidate: it calls no sort_file, moves nothing, makes no folder, and
\* shows no progress and no summary.
C36_SecondSweepIdle ==
    (hist.prior /\ sw.pc # "idle")
       => /\ SweepCandidates = {}
          /\ sw.candidates = << >> /\ sw.total = 0 /\ sw.moved_files = << >>
          /\ sw.pc \in {"scan", "filter", "done"}
          /\ mv["batch"].pc = "idle"
          /\ hist.calls = {} /\ hist.made = {}
          /\ hist.moves = << >>
          /\ hist.progress = << >> /\ hist.complete = 0 /\ hist.summaries = 0
          /\ hist.notified = {}

\* the second sort_files() has returned after looking at the files that the
\* first one, which moved a file, left in the watched directory
C36_Witness ==
    /\ hist.prior /\ sw.pc = "done" /\ ~ sw.aborted
    /\ InDownloads(fs) # {}
    /\ \E p \in DOMAIN fs : fs[p].origin # p /\ fs[p].origin[1] = DOWNLOADS_FOLDER_PATH

\* the process ends: sys.exit(1) in main, or the icon's loop has been stopped
\* and the main thread has left main; the threads of an observer are daemon
\* threads and end with the process
ProcessExits ==
    \/ tray.exited
    \/ /\ tray.icon = "stopped"
       /\ tray.thread["main"].pc = "done"
       /\ tray.thread["tray"].pc = "idle"

\* C37: when the process exits, by Quit or by sys.exit, every observer that
\* was started has been stopped and joined: none is running or stopping and
\* the global observer is None.
C37_StoppedBeforeExit ==
    ProcessExits
       => /\ observer = "None"
          /\ \A o \in Observers : tray.obs[o] \notin {"running", "stopping"}

\* C38: the sweep and the watcher cover the same files: the sweep lists and
\* takes as candidates only files directly inside the watched directory, and
\* a file inside a subdirectory of it is never moved, by a live event or
\* otherwise: it stays at the path where it was.
C38_NestedNeverMoved ==
    /\ \A k \in 1..Len(sw.raw_files) : sw.raw_files[k][1] = DOWNLOADS_FOLDER_PATH
    /\ \A k \in 1..Len(sw.candidates) :
         sw.candidates[k][1][1] = DOWNLOADS_FOLDER_PATH
    /\ mv["batch"].pc # "idle" => mv["batch"].path[1] = DOWNLOADS_FOLDER_PATH
    /\ \A p \in DOMAIN fs : fs[p].origin[1] = SubFolder => p = fs[p].origin
    /\ \A p \in DOMAIN hist.moves : p[1] # SubFolder

\* the thread of the tray callbacks is inside stop_watching
InStopWatching ==
    /\ tray.thread["tray"].fn = "stop_action"
    /\ tray.thread["tray"].pc \in {"175", "176", "177", "178"}

\* C39: stop_watching eventually returns, also when a handler of a live event
\* is executing: a stop_watching that has begun leaves its lines 175-178,
\* unless the process exits first.
C39_StopReturns ==
    InStopWatching ~> (~ InStopWatching \/ tray.exited)

====
